---- MODULE Spec2Model ----
(***************************************************************************)
(* A model of the subtitle core of video_tool:                             *)
(*   - SubtitleManager.align_translation_timestamps and its overlap        *)
(*     post-pass (core/subtitle_manager.py),                               *)
(*   - SubtitleManager.translate_subtitles, the batched, multi-threaded    *)
(*     translation driver with retry and fallback,                         *)
(*   - FeedbackLoop and the iteration loop of AdvancedProcessor.process    *)
(*     (core/advanced_processor.py).                                       *)
(*                                                                         *)
(* Numbers.  Python floats are modelled by exact integers in fixed units:  *)
(*   time      1 tick = 1/14000 s (1 ms = 14 ticks), so that every         *)
(*             len/(chars-per-second * speaker_rate) of the model, its     *)
(*             half, and half of every millisecond duration are whole;     *)
(*   scores    thousandths (the evaluator rounds every score to 3 places); *)
(*   speed_adjustment, duration_ratio   hundredths (round(x, 2));          *)
(*   merge_threshold tenths, vad_threshold hundredths.                     *)
(* Floating-point rounding error at exact ties is not modelled.            *)
(***************************************************************************)
EXTENDS Integers, Sequences, FiniteSets, TLC

VARIABLES
    \* ---- SubtitleManager.align_translation_timestamps
    original_segments,   \* input: sequence of [index, start, end, len] (ticks)
    translated_texts,    \* input: sequence of translated text lengths
    target_lang,         \* input: language code
    speaker_rate,        \* input: speaker rate multiplier, in tenths
    calculated,          \* aligned_results before the overlap post-pass
    aligned_results,     \* value returned by align_translation_timestamps
    align_pc,            \* "input" | "done"
    \* ---- SubtitleManager.translate_subtitles
    engine_type,         \* self.engine_type: "deeplx" | "deepseek"
    api_key,             \* self.api_key is set (TRUE) or empty/None (FALSE)
    thread_count,        \* self.thread_count
    subtitles,           \* input: sequence of [index, time_range, text]
    translated_subs,     \* result storage, None until written
    completed,           \* completed[0], the progress counter
    lock,                \* self._lock: the batch whose worker holds it, 0 if free
    progress_calls,      \* the first argument of every progress_callback call
    failed_batches,      \* batch_index of every batch that fell back
    worker,              \* per batch: the state of its translate_batch_worker
    completion_order,    \* batches in the order as_completed yields them
    returned,            \* value returned by translate_subtitles
    tr_pc,               \* "start" | "running" | "returned" | "raised"
    \* ---- FeedbackLoop
    adjustable_params,   \* self.adjustable_params: name -> current value
    history,             \* self.history: overall_score of each recorded evaluation
    evaluation,          \* the quality report last evaluated / analysed
    errors,              \* the value last returned by analyze_errors
    adjustments,         \* the value last returned by suggest_adjustments
    improved,            \* "improved" of the last run_iteration
    fb_pc,               \* the FeedbackLoop call that ran last
    \* ---- AdvancedProcessor.process
    auto_optimize,       \* argument of the running / last call
    max_iterations,      \* argument of the running / last call
    translator_func,     \* a translator function was passed (TRUE) or None (FALSE)
    loop_i,              \* number of loop rounds that ran to their end
    processed,           \* the local processed / translated_segments: the number
                         \* of the round that produced them, 0 the first pass
    cur_evaluation,      \* the local evaluation: the report of `processed`
    result,              \* the dictionary process returns
    strategy,            \* the segmenter strategy of the content type
    rounds,              \* what each round of the running / last call did
    proc_pc,             \* "idle" | "loop" | "done"
    \* ---- asr_post_processor.py
    pp_params,           \* the ASRPostProcessor's constructor arguments
    pp_segments,         \* input: sequence of [start, end, text] (milliseconds)
    pp_max_words,        \* input: max_words of split_by_punctuation
    pp_merged,           \* the list _smart_merge returned inside optimize
    pp_result,           \* the list the routine returned
    pp_pc,               \* "list" | "segment" (inputs), then the routine that ran
    \* ---- AdaptiveSegmenter.segment
    seg_type,            \* input: content_type
    seg_terms,           \* input: technical_terms, a sequence of texts
    seg_input,           \* input: sequence of [start, end, text] (milliseconds)
    seg_output,          \* segment(seg_input, seg_type, seg_terms)
    seg_again,           \* segment(seg_output, seg_type, seg_terms)
    seg_pc,              \* "input" | "segmented" | "again"
    \* ---- ContentAnalyzer.analyze
    ca_segments,         \* input: the texts of the segments
    ca_analysis,         \* the dictionary analyze returned (scores in thousandths)
    ca_pc,               \* "input" | "analyzed"
    \* ---- QualityEvaluator.evaluate
    qe_original,         \* input: original_segments, [start, end, text] (ms)
    qe_translated,       \* input: translated_segments
    qe_aligned,          \* input: aligned_segments (<<>> also stands for None)
    qe_reference,        \* input: reference_translation (<<>> also stands for None)
    qe_results,          \* the dictionary evaluate returned (scores in thousandths)
    qe_pc,               \* "input" | "evaluated"
    \* ---- TerminologyManager
    tm_terms,            \* self.terms: function from source to target
    tm_segments,         \* input: the texts of the segments
    tm_before,           \* self.terms when extract_and_add was first called
    tm_once,             \* self.terms when extract_and_add first returned
    tm_added,            \* number of add_term calls made
    tm_pc,               \* "input" | "once" | "twice"
    \* ---- ASR2TTSPipeline
    pl_config,           \* translator_config: [api_key: is set, engine_type]
    pl_manager,          \* self.subtitle_manager is not None
    pl_call,             \* the running call: [entry, exists, skip_tts, target_lang]
    pl_stages,           \* the steps the running / last call has executed
    pl_outcome,          \* "" while running, "returned" or the exception raised
    pl_calls,            \* number of calls made on this pipeline
    pl_pc,               \* position in process / process_srt
    \* ---- SubtitleManager.export_tts_alignment_data
    ex_aligned,          \* input: aligned_segments (times in ticks)
    ex_data,             \* tts_data, the value returned
    ex_json,             \* the number tokens of the JSON document written
    ex_parsed,           \* the numbers a JSON parser reads from the document
    ex_pc,               \* "input" | "exported" | "parsed"
    \* ---- parse_srt of SubtitleManager and SRTProcessor, SRTParser.parse
    srt_blocks,          \* input: the blocks written in the file, each a list of lines
    srt_blank,           \* input: the line that separates two blocks in the file
    srt_parser,          \* the parser that was called
    srt_result,          \* the list the parser returned
    srt_pc               \* "input" | "returned"

align_vars == <<original_segments, translated_texts, target_lang, speaker_rate,
                calculated, aligned_results, align_pc>>

translate_vars == <<engine_type, api_key, thread_count, subtitles, translated_subs,
                    completed, lock, progress_calls, failed_batches, worker,
                    completion_order, returned, tr_pc>>

feedback_vars == <<adjustable_params, history, evaluation, errors, adjustments,
                   improved, fb_pc>>

process_vars == <<auto_optimize, max_iterations, translator_func, loop_i, processed,
                  cur_evaluation, result, strategy, rounds, proc_pc>>

post_vars == <<pp_params, pp_segments, pp_max_words, pp_merged, pp_result, pp_pc>>

segment_vars == <<seg_type, seg_terms, seg_input, seg_output, seg_again, seg_pc>>

\* the components of advanced_processor.py and of the pipeline that are used
\* on their own
content_vars == <<ca_segments, ca_analysis, ca_pc>>
quality_vars == <<qe_original, qe_translated, qe_aligned, qe_reference, qe_results, qe_pc>>
terms_vars == <<tm_terms, tm_segments, tm_before, tm_once, tm_added, tm_pc>>
pipeline_vars == <<pl_config, pl_manager, pl_call, pl_stages, pl_outcome, pl_calls, pl_pc>>
export_vars == <<ex_aligned, ex_data, ex_json, ex_parsed, ex_pc>>
srt_vars == <<srt_blocks, srt_blank, srt_parser, srt_result, srt_pc>>
adv_vars == <<segment_vars, content_vars, quality_vars, terms_vars, pipeline_vars, export_vars,
              srt_vars>>

base_vars == <<align_vars, translate_vars, feedback_vars, process_vars, post_vars>>

vars == <<base_vars, adv_vars>>

\* what the operations of one component leave alone: the other components
\* (process works on its own FeedbackLoop, self.feedback)
align_frame == <<translate_vars, feedback_vars, process_vars, post_vars, adv_vars>>
translate_frame == <<align_vars, feedback_vars, process_vars, post_vars, adv_vars>>
feedback_frame == <<align_vars, translate_vars, process_vars, post_vars, adv_vars>>
process_frame == <<align_vars, translate_vars, post_vars, adv_vars>>
post_frame == <<align_vars, translate_vars, feedback_vars, process_vars, adv_vars>>
segment_frame == <<base_vars, content_vars, quality_vars, terms_vars, pipeline_vars, export_vars, srt_vars>>
content_frame == <<base_vars, segment_vars, quality_vars, terms_vars, pipeline_vars, export_vars, srt_vars>>
quality_frame == <<base_vars, segment_vars, content_vars, terms_vars, pipeline_vars, export_vars, srt_vars>>
terms_frame == <<base_vars, segment_vars, content_vars, quality_vars, pipeline_vars, export_vars, srt_vars>>
pipeline_frame == <<base_vars, segment_vars, content_vars, quality_vars, terms_vars, export_vars, srt_vars>>
export_frame == <<base_vars, segment_vars, content_vars, quality_vars, terms_vars, pipeline_vars, srt_vars>>
srt_frame == <<base_vars, segment_vars, content_vars, quality_vars, terms_vars, pipeline_vars, export_vars>>

\* the aligner is not in use
AlignIdle ==
    /\ original_segments = <<>>
    /\ translated_texts = <<>>
    /\ target_lang = "zh"
    /\ speaker_rate = 10
    /\ calculated = <<>>
    /\ aligned_results = <<>>
    /\ align_pc = "idle"

\* translate_subtitles is not in use
TranslateIdle ==
    /\ engine_type = "deeplx"
    /\ api_key = FALSE
    /\ thread_count = 1
    /\ subtitles = <<>>
    /\ translated_subs = <<>>
    /\ completed = 0
    /\ lock = 0
    /\ progress_calls = <<>>
    /\ failed_batches = <<>>
    /\ worker = <<>>
    /\ completion_order = <<>>
    /\ returned = <<>>
    /\ tr_pc = "idle"

\* no FeedbackLoop call is made
FeedbackIdle ==
    /\ adjustable_params = [k \in {} |-> 0]
    /\ history = <<>>
    /\ evaluation = [k \in {} |-> 0]
    /\ errors = [k \in {} |-> 0]
    /\ adjustments = [k \in {} |-> 0]
    /\ improved = FALSE
    /\ fb_pc = "idle"

\* no AdvancedProcessor is in use
ProcessIdle ==
    /\ auto_optimize = FALSE
    /\ max_iterations = 0
    /\ translator_func = FALSE
    /\ loop_i = 0
    /\ processed = 0
    /\ cur_evaluation = [k \in {} |-> 0]
    /\ result = [k \in {} |-> 0]
    /\ strategy = [k \in {} |-> 0]
    /\ rounds = <<>>
    /\ proc_pc = "idle"

\* no routine of asr_post_processor.py is in use
PostIdle ==
    /\ pp_params = [k \in {} |-> 0]
    /\ pp_segments = <<>>
    /\ pp_max_words = 0
    /\ pp_merged = <<>>
    /\ pp_result = <<>>
    /\ pp_pc = "idle"

\* the segmenter is not in use
SegmentIdle ==
    /\ seg_type = "mixed"
    /\ seg_terms = <<>>
    /\ seg_input = <<>>
    /\ seg_output = <<>>
    /\ seg_again = <<>>
    /\ seg_pc = "idle"

BaseIdle == AlignIdle /\ TranslateIdle /\ FeedbackIdle /\ ProcessIdle /\ PostIdle

\* the analyzer is not in use
ContentIdle ==
    /\ ca_segments = <<>>
    /\ ca_analysis = [k \in {} |-> 0]
    /\ ca_pc = "idle"

\* the evaluator is not in use
QualityIdle ==
    /\ qe_original = <<>>
    /\ qe_translated = <<>>
    /\ qe_aligned = <<>>
    /\ qe_reference = <<>>
    /\ qe_results = [k \in {} |-> 0]
    /\ qe_pc = "idle"

\* the terminology manager is not in use
TermsIdle ==
    /\ tm_terms = [k \in {} |-> 0]
    /\ tm_segments = <<>>
    /\ tm_before = [k \in {} |-> 0]
    /\ tm_once = [k \in {} |-> 0]
    /\ tm_added = 0
    /\ tm_pc = "idle"

\* no pipeline is in use
PipelineIdle ==
    /\ pl_config = [k \in {} |-> 0]
    /\ pl_manager = FALSE
    /\ pl_call = [k \in {} |-> 0]
    /\ pl_stages = <<>>
    /\ pl_outcome = ""
    /\ pl_calls = 0
    /\ pl_pc = "idle"

\* no export is in progress
ExportIdle ==
    /\ ex_aligned = <<>>
    /\ ex_data = [k \in {} |-> 0]
    /\ ex_json = [k \in {} |-> 0]
    /\ ex_parsed = [k \in {} |-> 0]
    /\ ex_pc = "idle"

\* no parser is in use
SrtIdle ==
    /\ srt_blocks = <<>>
    /\ srt_blank = <<>>
    /\ srt_parser = "none"
    /\ srt_result = <<>>
    /\ srt_pc = "idle"

AdvIdle ==
    /\ SegmentIdle /\ ContentIdle /\ QualityIdle /\ TermsIdle /\ PipelineIdle
    /\ ExportIdle /\ SrtIdle

\* ------------------------------------------------------------------ bounds
MaxSegs == 2      \* segments per alignment call
MaxGrid == 4      \* original timestamps are k * GridMs, k in 0..MaxGrid
GridMs == 50      \* spacing of the original timestamps, in ms
MaxLen == 3       \* translated text length, in characters
MaxSubs == 11     \* subtitles per translate_subtitles call, AI engines
MaxDeeplxSubs == 3 \* subtitles per translate_subtitles call, DeepLX
MaxThreads == 3   \* thread_count is 1..MaxThreads
MaxIterations == 3 \* max_iterations is 0..MaxIterations
MaxFrags == 2     \* fragments per list given to the post-processors
MaxChain == 4     \* fragments per list of short fragments
MaxText == 5      \* characters of a segment given to split_by_punctuation
MaxHistory == 3   \* recorded evaluations kept in FeedbackLoop.history
Delta == 100      \* sampled report values lie Delta around each threshold
MaxSegFrags == 3  \* fragments per list given to AdaptiveSegmenter.segment
MaxAnalyzed == 2  \* segments per list given to ContentAnalyzer.analyze
MaxEvaluated == 2 \* segments per list given to QualityEvaluator.evaluate
MaxAdded == 2     \* add_term calls before extract_and_add
MaxExtracted == 1 \* segments per list given to extract_and_add
MaxCalls == 2     \* process / process_srt calls on one pipeline
MaxExported == 2  \* segments per list given to export_tts_alignment_data
MaxBlocks == 2    \* blocks per SRT file

\* ----------------------------------------------------------------- helpers
Min(a, b) == IF a <= b THEN a ELSE b
Max(a, b) == IF a >= b THEN a ELSE b

\* round(n/d) to the nearest integer, ties to even (Python's round)
RoundDiv(n, d) ==
    LET q == n \div d
        r == n % d
    IN  IF 2 * r < d THEN q
        ELSE IF 2 * r > d THEN q + 1
        ELSE IF q % 2 = 0 THEN q ELSE q + 1

\* =============================================================== Python str
\* A text is a sequence of one-character strings.
UpperCase == << "A", "B", "C", "D", "E", "F", "G", "H", "I", "J", "K", "L", "M",
                "N", "O", "P", "Q", "R", "S", "T", "U", "V", "W", "X", "Y", "Z" >>
LowerCase == << "a", "b", "c", "d", "e", "f", "g", "h", "i", "j", "k", "l", "m",
                "n", "o", "p", "q", "r", "s", "t", "u", "v", "w", "x", "y", "z" >>

\* c.isupper(), c.islower(), c.isalpha(), c.isspace() of one character
IsUpper(c) == \E k \in DOMAIN UpperCase : UpperCase[k] = c
IsLower(c) == \E k \in DOMAIN LowerCase : LowerCase[k] = c
IsAlpha(c) == IsUpper(c) \/ IsLower(c)
IsSpace(c) == c = " "

\* c.lower(), c.upper() of one character
LowerChar(c) ==
    IF IsUpper(c) THEN LowerCase[CHOOSE k \in DOMAIN UpperCase : UpperCase[k] = c] ELSE c
UpperChar(c) ==
    IF IsLower(c) THEN UpperCase[CHOOSE k \in DOMAIN LowerCase : LowerCase[k] = c] ELSE c

\* t.lower()
Lower(t) == [ k \in DOMAIN t |-> LowerChar(t[k]) ]

\* t[a:b] with 0-based Python positions, 0 <= a, b
Slice(t, a, b) == SubSeq(t, a + 1, Min(b, Len(t)))

\* t.startswith(p), t.endswith(p), p in t
StartsWith(t, p) == Len(p) <= Len(t) /\ SubSeq(t, 1, Len(p)) = p
EndsWith(t, p) == Len(p) <= Len(t) /\ SubSeq(t, Len(t) - Len(p) + 1, Len(t)) = p
Contains(t, p) == \E k \in 0..(Len(t) - Len(p)) : SubSeq(t, k + 1, k + Len(p)) = p

\* t.startswith(tuple), t.endswith(tuple)
StartsWithAny(t, ps) == \E p \in ps : StartsWith(t, p)
EndsWithAny(t, ps) == \E p \in ps : EndsWith(t, p)

\* t.lstrip(chars), t.rstrip(chars), chars a set of characters
RECURSIVE LStripChars(_, _)
LStripChars(t, chars) ==
    IF t # <<>> /\ Head(t) \in chars THEN LStripChars(Tail(t), chars) ELSE t
RECURSIVE RStripChars(_, _)
RStripChars(t, chars) ==
    IF t # <<>> /\ t[Len(t)] \in chars
    THEN RStripChars(SubSeq(t, 1, Len(t) - 1), chars) ELSE t

\* t.strip()
Strip(t) == RStripChars(LStripChars(t, {" "}), {" "})

\* t.split(): the maximal runs of non-space characters
RECURSIVE SplitFrom(_, _)
SplitFrom(t, word) ==
    IF t = <<>> THEN (IF word = <<>> THEN <<>> ELSE <<word>>)
    ELSE IF IsSpace(Head(t))
         THEN (IF word = <<>> THEN <<>> ELSE <<word>>) \o SplitFrom(Tail(t), <<>>)
         ELSE SplitFrom(Tail(t), Append(word, Head(t)))
Split(t) == SplitFrom(t, <<>>)

\* len(t.split())
WordCount(t) == Len(Split(t))

\* sep.join(parts)
RECURSIVE Join(_, _)
Join(sep, parts) ==
    IF parts = <<>> THEN <<>>
    ELSE IF Len(parts) = 1 THEN parts[1]
    ELSE parts[1] \o sep \o Join(sep, Tail(parts))

\* t.replace(old, new), old not empty: leftmost non-overlapping occurrences
RECURSIVE Replace(_, _, _)
Replace(t, old, new) ==
    IF Len(t) < Len(old) THEN t
    ELSE IF StartsWith(t, old)
         THEN new \o Replace(SubSeq(t, Len(old) + 1, Len(t)), old, new)
         ELSE <<Head(t)>> \o Replace(Tail(t), old, new)

\* the characters of a string
Chars(str) == [ k \in 1..Len(str) |-> SubSeq(str, k, k) ]
CharsOf(strs) == [ k \in DOMAIN strs |-> Chars(strs[k]) ]

\* ---- regular-expression passes used by the post-processors
UpperSet == { UpperCase[k] : k \in DOMAIN UpperCase }
AlphaSet == UpperSet \cup { LowerCase[k] : k \in DOMAIN LowerCase }

\* re.sub(r'\s+([chars])', r'\1', t): drop the white space in front of a
\* character of chars
RECURSIVE DropSpaceBefore(_, _)
DropSpaceBefore(t, chars) ==
    IF t = <<>> THEN <<>>
    ELSE IF IsSpace(Head(t))
         THEN LET rest == LStripChars(t, {" "})
              IN  IF rest # <<>> /\ Head(rest) \in chars
                  THEN DropSpaceBefore(rest, chars)
                  ELSE <<Head(t)>> \o DropSpaceBefore(Tail(t), chars)
         ELSE <<Head(t)>> \o DropSpaceBefore(Tail(t), chars)

\* re.sub(r'([puncts])([letters])', r'\1 \2', t), and the same with a
\* look-ahead for the letter: a space between a punctuation mark and a letter
RECURSIVE SpaceBetween(_, _, _)
SpaceBetween(t, puncts, letters) ==
    IF Len(t) < 2 THEN t
    ELSE IF t[1] \in puncts /\ t[2] \in letters
         THEN <<t[1], " ">> \o SpaceBetween(Tail(t), puncts, letters)
         ELSE <<t[1]>> \o SpaceBetween(Tail(t), puncts, letters)

\* re.sub(r'([chars])\1+', r'\1', t): a run of one mark becomes one mark
RECURSIVE CollapseRepeats(_, _)
CollapseRepeats(t, chars) ==
    IF Len(t) < 2 THEN t
    ELSE IF t[1] \in chars /\ t[2] = t[1]
         THEN CollapseRepeats(Tail(t), chars)
         ELSE <<t[1]>> \o CollapseRepeats(Tail(t), chars)

\* ' '.join(t.split())
NormalizeSpaces(t) == Join(<<" ">>, Split(t))

\* t.replace of two backquotes and of two single quotes by a double quote;
\* the backquote is written "bq", the double quote "dq"
FixQuotes(t) == Replace(Replace(t, <<"bq", "bq">>, <<"dq">>), <<"'", "'">>, <<"dq">>)

\* ================================================= asr_post_processor.py
\* The full-width marks are written "fw.", "fw!" and "fw?", one character each.
SENTENCE_ENDINGS == { <<".">>, <<"!">>, <<"?">>, <<"fw.">>, <<"fw!">>, <<"fw?">> }

\* . ! ? as tested by the module-level functions
AsciiEndings == { <<".">>, <<"!">>, <<"?">> }

\* one segment's text after _fix_punctuation
FixPunctuationText(text) ==
    LET t1 == DropSpaceBefore(text, {".", ",", "!", "?", ";", ":", "'", "dq"})
        t2 == SpaceBetween(t1, {".", "!", "?"}, UpperSet)
    IN  FixQuotes(NormalizeSpaces(t2))

QUESTION_WORDS ==
    { <<"w","h","o">>, <<"w","h","a","t">>, <<"w","h","e","r","e">>, <<"w","h","e","n">>,
      <<"w","h","y">>, <<"h","o","w">>, <<"w","h","i","c","h">>, <<"w","h","o","s","e">> }

\* any(text_lower.startswith(qw) or f' {qw} ' in text_lower for qw in ...)
IsQuestion(text) ==
    \E qw \in QUESTION_WORDS :
        \/ StartsWith(Lower(text), qw)
        \/ Contains(Lower(text), <<" ">> \o qw \o <<" ">>)

MutEnsureSentenceCompletenessText(seg_text) == Strip(seg_text)

\* one segment's text after _ensure_sentence_completeness; an empty text is
\* left as it is (continue)
EnsureSentenceCompletenessText(seg_text) ==
    LET text == Strip(seg_text)
    IN  IF text = <<>> THEN seg_text
        ELSE IF ~EndsWithAny(text, SENTENCE_ENDINGS)
             THEN RStripChars(text, {".", ",", ";", ":"})
                      \o (IF IsQuestion(text) THEN <<"?">> ELSE <<".">>)
             ELSE text

\* one kept segment's text after _final_cleanup
FinalCleanupText(seg_text) ==
    LET t1 == NormalizeSpaces(Strip(seg_text))
        t2 == DropSpaceBefore(t1, {".", ",", "!", "?", ";", ":"})
        t3 == SpaceBetween(t2, {".", ",", "!", "?", ";", ":"}, AlphaSet)
        t4 == FixQuotes(CollapseRepeats(t3, {".", ",", "!", "?"}))
    IN  IF t4 # <<>> /\ IsAlpha(t4[1]) THEN <<UpperChar(t4[1])>> \o Tail(t4) ELSE t4

\* ---- ASRPostProcessor
CONTINUATION_ENDINGS ==
    { <<",">>, <<";">>, <<":">>, <<" ", "-">>, <<" ", "b", "u", "t">>,
      <<" ", "a", "n", "d">>, <<" ", "o", "r">>, <<" ", "s", "o">>,
      <<" ", "b", "e", "c", "a", "u", "s", "e">>,
      <<" ", "t", "h", "o", "u", "g", "h">>, <<" ", "w", "h", "i", "c", "h">>,
      <<" ", "t", "h", "a", "t">>, <<" ", "w", "h", "o">>,
      <<" ", "w", "h", "e", "r", "e">>, <<" ", "w", "h", "e", "n">>,
      <<" ", "a", "s">>, <<" ", "i", "f">>, <<" ", "w", "h", "i", "l", "e">>,
      <<" ", "a", "l", "t", "h", "o", "u", "g", "h">>,
      <<" ", "u", "n", "l", "e", "s", "s">>,
      <<" ", "h", "o", "w", "e", "v", "e", "r">>,
      <<" ", "t", "h", "e", "r", "e", "f", "o", "r", "e">>,
      <<" ", "m", "o", "r", "e", "o", "v", "e", "r">>,
      <<" ", "f", "u", "r", "t", "h", "e", "r", "m", "o", "r", "e">> }

\* incomplete_endings of _should_merge (rule 7)
IncompleteEndings ==
    { <<"t", "o">>, <<"o", "f">>, <<"f", "o", "r">>, <<"w", "i", "t", "h">>,
      <<"i", "n">>, <<"o", "n">>, <<"a", "t">>, <<"b", "y">>, <<"f", "r", "o", "m">>,
      <<"a">>, <<"a", "n">>, <<"t", "h", "e">>, <<"i", "s">>, <<"a", "r", "e">>,
      <<"w", "a", "s">>, <<"w", "e", "r", "e">>, <<"b", "e">>, <<"c", "a", "n">>,
      <<"c", "o", "u", "l", "d">>, <<"w", "i", "l", "l">>,
      <<"w", "o", "u", "l", "d">>, <<"s", "h", "a", "l", "l">>,
      <<"s", "h", "o", "u", "l", "d">> }

\* the constructor's defaults; times in milliseconds
DefaultParams ==
    [ min_segment_duration |-> 1500, max_segment_duration |-> 8000, min_words |-> 4,
      max_words |-> 20, merge_gap_threshold |-> 300 ]

\* Segment.duration, Segment.word_count
Duration(seg) == seg.end - seg.start
SegWordCount(seg) == WordCount(seg.text)

\* text.endswith(self.SENTENCE_ENDINGS)
EndsSentence(text) == EndsWithAny(text, SENTENCE_ENDINGS)

\* rule 4 of _should_merge compares the gap with the literal 0.3
ShortGap == 300

MutShouldMerge(params, current, next_seg, merge_count) ==
    next_seg.start - current.end <= params.merge_gap_threshold * (merge_count + 1)

\* ASRPostProcessor._should_merge(current, next_seg, merge_count)
ShouldMerge(params, current, next_seg, merge_count) ==
    LET gap == next_seg.start - current.end
        current_text == Strip(current.text)
        next_text == Strip(next_seg.text)
        current_words == Split(current_text)
        last_word == IF current_words = <<>> THEN <<>>
                     ELSE RStripChars(Lower(current_words[Len(current_words)]),
                                      {".", ",", ";", ":"})
    IN  IF gap > params.merge_gap_threshold * (merge_count + 1) THEN FALSE
        ELSE IF /\ merge_count >= 3
                /\ SegWordCount(next_seg) >= params.min_words
                /\ Duration(next_seg) >= params.min_segment_duration THEN FALSE
        ELSE IF /\ EndsSentence(current_text)
                /\ next_text # <<>> /\ IsUpper(next_text[1]) THEN FALSE
        ELSE \/ next_text # <<>> /\ IsLower(next_text[1])
             \/ \E ending \in CONTINUATION_ENDINGS :
                    EndsWith(Lower(current_text), Lower(ending))
             \/ Len(current_words) < params.min_words /\ ~EndsSentence(current_text)
             \/ gap < ShortGap /\ ~EndsSentence(current_text)
             \/ /\ ~EndsSentence(current_text)
                /\ \/ SegWordCount(next_seg) < params.min_words
                   \/ Duration(next_seg) < params.min_segment_duration
             \/ SegWordCount(current) < params.min_words
             \/ Duration(current) < params.min_segment_duration
             \/ last_word \in IncompleteEndings

\* the text of one fragment as _merge_segments joins it
MergePart(seg_text) ==
    LET text == Strip(seg_text)
    IN  IF text # <<>> /\ text[Len(text)] \in {",", ";", ":"}
        THEN SubSeq(text, 1, Len(text) - 1) ELSE text

\* ASRPostProcessor._merge_segments (word-level timestamps left out)
MergeSegments(segs) ==
    IF Len(segs) = 1 THEN segs[1]
    ELSE [ start |-> segs[1].start, end |-> segs[Len(segs)].end,
           text |-> Join(<<" ">>, [ k \in DOMAIN segs |-> MergePart(segs[k].text) ]) ]

\* the inner while of _smart_merge: the number of fragments of the window
\* that starts at segments[i], n of which are merged already
RECURSIVE WindowSize(_, _, _, _, _)
WindowSize(params, segments, i, n, total_words) ==
    IF i + n > Len(segments) THEN n
    ELSE LET next_seg == segments[i + n]
             new_duration == next_seg.end - segments[i].start
             new_words == total_words + SegWordCount(next_seg)
         IN  IF new_duration > params.max_segment_duration THEN n
             ELSE IF new_words > params.max_words THEN n
             ELSE IF ShouldMerge(params, segments[i + n - 1], next_seg, n)
                  THEN WindowSize(params, segments, i, n + 1, new_words)
                  ELSE n

MutSmartMergeFrom(params, segments, i) ==
    LET n == WindowSize(params, segments, i, 1, SegWordCount(segments[i]))
    IN  <<MergeSegments(SubSeq(segments, i, i + n - 1))>>

\* the outer while of _smart_merge, from segments[i] on (i is 1-based)
RECURSIVE SmartMergeFrom(_, _, _)
SmartMergeFrom(params, segments, i) ==
    IF i > Len(segments) THEN <<>>
    ELSE LET n == WindowSize(params, segments, i, 1, SegWordCount(segments[i]))
         IN  <<MergeSegments(SubSeq(segments, i, i + n - 1))>>
                 \o SmartMergeFrom(params, segments, i + n)

\* ASRPostProcessor._smart_merge
SmartMerge(params, segments) ==
    IF Len(segments) < 2 THEN segments ELSE SmartMergeFrom(params, segments, 1)

\* COMMON_FIXES: the entries that occur in a text of this model, in the order
\* of the table (no text of the model matches another entry or a REGEX_FIXES
\* pattern)
COMMON_FIXES ==
    << << <<"t", "h", ".">>, <<"t", "h", "i", "s">> >>,
       << <<"q", "o", "l">>, <<"q", "u", "a", "l", "i", "t", "y", " ", "o", "f", " ", "l", "i", "f", "e">> >> >>

\* re.compile(re.escape(old), re.IGNORECASE).sub(new, t)
RECURSIVE ReplaceIgnoreCase(_, _, _)
ReplaceIgnoreCase(t, old, new) ==
    IF Len(t) < Len(old) THEN t
    ELSE IF StartsWith(Lower(t), Lower(old))
         THEN new \o ReplaceIgnoreCase(SubSeq(t, Len(old) + 1, Len(t)), old, new)
         ELSE <<Head(t)>> \o ReplaceIgnoreCase(Tail(t), old, new)

\* one segment's text after _fix_common_errors with the built-in table
\* (use_external_dict = False)
RECURSIVE ApplyFixes(_, _)
ApplyFixes(text, k) ==
    IF k > Len(COMMON_FIXES) THEN text
    ELSE ApplyFixes(ReplaceIgnoreCase(text, COMMON_FIXES[k][1], COMMON_FIXES[k][2]), k + 1)
FixCommonErrorsText(text) == ApplyFixes(text, 1)

\* the passes of optimize that rewrite every segment's text in place
StripAll(segs) == [ k \in DOMAIN segs |-> [ segs[k] EXCEPT !.text = Strip(@) ] ]
FixPunctuation(segs) ==
    [ k \in DOMAIN segs |-> [ segs[k] EXCEPT !.text = FixPunctuationText(@) ] ]
FixCommonErrors(segs) ==
    [ k \in DOMAIN segs |-> [ segs[k] EXCEPT !.text = FixCommonErrorsText(@) ] ]
EnsureSentenceCompleteness(segs) ==
    [ k \in DOMAIN segs |-> [ segs[k] EXCEPT !.text = EnsureSentenceCompletenessText(@) ] ]

\* _final_cleanup: segments with an empty text are dropped
RECURSIVE FinalCleanup(_)
FinalCleanup(segs) ==
    IF segs = <<>> THEN <<>>
    ELSE IF Strip(Head(segs).text) = <<>> THEN FinalCleanup(Tail(segs))
    ELSE << [ Head(segs) EXCEPT !.text = FinalCleanupText(@) ] >>
             \o FinalCleanup(Tail(segs))

\* the list after step 2 of ASRPostProcessor.optimize
OptimizeMerged(params, segments) ==
    SmartMerge(params, FixPunctuation(StripAll(segments)))

\* ASRPostProcessor.optimize
Optimize(params, segments) ==
    IF segments = <<>> THEN segments
    ELSE FinalCleanup(EnsureSentenceCompleteness(
                          FixCommonErrors(OptimizeMerged(params, segments))))

\* ---- intelligent_merge_segments
CommonStarters ==
    { <<"i", " ">>, <<"i", "'", "m", " ">>, <<"i", "'", "l", "l", " ">>,
      <<"i", "'", "v", "e", " ">>, <<"i", "'", "d", " ">>, <<"y", "o", "u", " ">>,
      <<"w", "e", " ">>, <<"t", "h", "e", "y", " ">>, <<"h", "e", " ">>,
      <<"s", "h", "e", " ">>, <<"i", "t", " ">> }
TopicShiftKeywords ==
    { <<"n", "e", "x", "t", " ", "u", "p">>,
      <<"a", "n", "o", "t", "h", "e", "r", " ", "t", "h", "i", "n", "g">>,
      <<"a", "l", "s", "o", ",">>, <<"m", "o", "v", "i", "n", "g", " ", "o", "n">>,
      <<"b", "y", " ", "t", "h", "e", " ", "w", "a", "y">>,
      <<"a", "n", "y", "w", "a", "y">>,
      <<"s", "p", "e", "a", "k", "i", "n", "g", " ", "o", "f">>,
      <<"o", "n", " ", "a", "n", "o", "t", "h", "e", "r", " ", "n", "o", "t", "e">> }
SentenceStarters ==
    { <<"s", "o", " ">>, <<"b", "u", "t", " ">>, <<"a", "n", "d", " ">>,
      <<"o", "r", " ">>, <<"n", "e", "x", "t", " ">>, <<"w", "e", "l", "l", " ">>,
      <<"o", "k", "a", "y", " ">>, <<"n", "o", "w", " ">>,
      <<"f", "i", "r", "s", "t", " ">>, <<"s", "e", "c", "o", "n", "d", " ">>,
      <<"t", "h", "i", "r", "d", " ">>, <<"f", "i", "n", "a", "l", "l", "y", " ">>,
      <<"h", "o", "w", "e", "v", "e", "r", " ">>,
      <<"t", "h", "e", "r", "e", "f", "o", "r", "e", " ">> }
ConjunctionEndings ==
    { <<" ", "b", "u", "t">>, <<" ", "a", "n", "d">>, <<" ", "o", "r">>,
      <<" ", "b", "e", "c", "a", "u", "s", "e">>, <<" ", "s", "o">>,
      <<" ", "t", "h", "o", "u", "g", "h">>, <<" ", "a", "s">>,
      <<" ", "w", "h", "i", "l", "e">>, <<" ", "i", "f">>,
      <<" ", "w", "h", "i", "c", "h">>, <<" ", "t", "h", "a", "t">>,
      <<" ", "w", "h", "o">>, <<" ", "w", "h", "e", "r", "e">>,
      <<" ", "w", "h", "e", "n">>, <<" ", "t", "o">>, <<" ", "o", "f">>,
      <<" ", "f", "o", "r">>, <<" ", "w", "i", "t", "h">> }
TermEndings ==
    { <<"e", "x", "p", "o", "r", "t">>, <<"o", "n", "r", "e", "a", "d", "y">>,
      <<"d", "r", "a", "g">>, <<"q", "u", "a", "l", "i", "t", "y">>, <<"t", "o">>,
      <<"t", "h", "e">>, <<"a">>, <<"a", "n">>, <<"t", "h", "i", "s">>,
      <<"t", "h", "a", "t">> }
TermStarts ==
    { <<"v", "a", "r", "i", "a", "b", "l", "e">>,
      <<"r", "e", "f", "e", "r", "e", "n", "c", "e", "s">>,
      <<"a", "n", "d", " ", "d", "r", "o", "p">>,
      <<"o", "f", " ", "l", "i", "f", "e">>, <<"s", "e", "e">> }
QuestionMarkers ==
    { <<"?">>, <<"w", "h", "a", "t">>, <<"h", "o", "w">>, <<"w", "h", "y">>,
      <<"w", "h", "o">>, <<"w", "h", "e", "r", "e">>, <<"w", "h", "e", "n">> }

\* any(q_word in text.lower() for q_word in [...])
LooksLikeQuestion(text) == \E q \in QuestionMarkers : Contains(Lower(text), q)

\* the closing of a text that does not end in . ! or ?
ClosePunctuation(text) ==
    RStripChars(text, {".", ",", ";", ":"})
        \o (IF LooksLikeQuestion(text) THEN <<"?">> ELSE <<".">>)

\* _merge_segments_with_punctuation (word-level timestamps left out)
MergeSegmentsWithPunctuation(segments) ==
    IF Len(segments) = 1
    THEN LET text == Strip(segments[1].text)
         IN  [ segments[1] EXCEPT !.text =
                   IF text # <<>> /\ ~EndsWithAny(text, AsciiEndings)
                   THEN ClosePunctuation(text) ELSE text ]
    ELSE LET joined == Join(<<" ">>, [ k \in DOMAIN segments |-> Strip(segments[k].text) ])
             t1 == Replace(Replace(joined, <<" ", ".">>, <<".">>), <<" ", ",">>, <<",">>)
             t2 == Replace(Replace(t1, <<" ", "?">>, <<"?">>), <<" ", "!">>, <<"!">>)
             merged_text == NormalizeSpaces(t2)
         IN  [ start |-> segments[1].start, end |-> segments[Len(segments)].end,
               text |-> IF ~EndsWithAny(merged_text, AsciiEndings)
                        THEN ClosePunctuation(merged_text) ELSE merged_text ]

\* sum(len(s['text'].split()) for s in buffer), sum(len(s['text']) for s in buffer)
RECURSIVE SumWords(_)
SumWords(segs) == IF segs = <<>> THEN 0 ELSE SegWordCount(Head(segs)) + SumWords(Tail(segs))
RECURSIVE SumChars(_)
SumChars(segs) == IF segs = <<>> THEN 0 ELSE Len(Head(segs).text) + SumChars(Tail(segs))

\* the gap under which intelligent_merge_segments merges an open sentence
TinyGap == 200

\* the decision of intelligent_merge_segments for seg, buffer not empty
ShouldMergeIntoBuffer(buffer, seg, max_duration, max_words, max_chars) ==
    LET current_text == Strip(seg.text)
        last_seg == buffer[Len(buffer)]
        last_text == Strip(last_seg.text)
        wanted ==
            IF current_text # <<>> /\ IsLower(current_text[1])
            THEN ~StartsWithAny(Lower(current_text), CommonStarters)
            ELSE IF EndsWithAny(last_text, { <<",">>, <<";">>, <<"-">>, <<".", ".", ".">> })
                 THEN TRUE
            ELSE IF EndsWithAny(Lower(last_text), ConjunctionEndings) THEN TRUE
            ELSE IF \/ EndsWithAny(Lower(last_text), TermEndings)
                    \/ StartsWithAny(Lower(current_text), TermStarts) THEN TRUE
            ELSE IF seg.start - last_seg.end < TinyGap
                 THEN ~EndsWithAny(last_text, AsciiEndings)
            ELSE FALSE
        combined_words == SumWords(buffer) + WordCount(current_text)
        combined_chars == SumChars(buffer) + Len(current_text)
        combined_duration == seg.end - buffer[1].start
    IN  /\ wanted
        /\ combined_words <= max_words
        /\ combined_chars <= max_chars
        /\ combined_duration <= max_duration
        /\ ~StartsWithAny(Lower(current_text), SentenceStarters)
        /\ ~\E keyword \in TopicShiftKeywords : Contains(Lower(current_text), keyword)

\* the for loop of intelligent_merge_segments from segments[i] on, and the
\* flush of the last buffer
RECURSIVE MergeLoop(_, _, _, _, _, _)
MergeLoop(segments, i, buffer, max_duration, max_words, max_chars) ==
    IF i > Len(segments)
    THEN IF buffer # <<>> THEN <<MergeSegmentsWithPunctuation(buffer)>> ELSE <<>>
    ELSE IF buffer = <<>>
         THEN MergeLoop(segments, i + 1, <<segments[i]>>, max_duration, max_words, max_chars)
    ELSE IF ShouldMergeIntoBuffer(buffer, segments[i], max_duration, max_words, max_chars)
         THEN MergeLoop(segments, i + 1, Append(buffer, segments[i]),
                        max_duration, max_words, max_chars)
    ELSE <<MergeSegmentsWithPunctuation(buffer)>>
             \o MergeLoop(segments, i + 1, <<segments[i]>>, max_duration, max_words, max_chars)

\* intelligent_merge_segments
IntelligentMergeSegments(segments, max_duration, max_words, max_chars) ==
    IF segments = <<>> THEN segments
    ELSE MergeLoop(segments, 1, <<>>, max_duration, max_words, max_chars)

\* ---- split_by_word_count, split_by_punctuation
\* Times are whole milliseconds: duration * ratio is rounded down.
RECURSIVE WordChunks(_, _, _, _)
WordChunks(segment, words, i, max_words) ==
    IF i >= Len(words) THEN <<>>
    ELSE LET chunk_words == SubSeq(words, i + 1, Min(i + max_words, Len(words)))
             chunk_text == Join(<<" ">>, chunk_words)
             duration == segment.end - segment.start
         IN  << [ start |-> segment.start + (duration * i) \div Len(words),
                  end |-> segment.start
                            + (duration * (i + Len(chunk_words))) \div Len(words),
                  text |-> IF ~EndsWithAny(chunk_text, AsciiEndings)
                           THEN RStripChars(chunk_text, {".", ",", ";", ":"}) \o <<".">>
                           ELSE chunk_text ] >>
                 \o WordChunks(segment, words, i + max_words, max_words)

\* split_by_word_count
SplitByWordCount(segment, max_words) ==
    IF WordCount(segment.text) <= max_words THEN <<segment>>
    ELSE WordChunks(segment, Split(segment.text), 0, max_words)

\* the priority of a split character, 0 if it is none
SplitPriority(text, k) ==
    IF text[k] = "," THEN 1
    ELSE IF text[k] = ";" THEN 2
    ELSE IF text[k] = "." /\ k < Len(text) /\ text[k + 1] = " " THEN 3
    ELSE 0

\* split_points: pos is the Python position after the character text[pos]
SplitPoints(text) ==
    LET at == { k \in DOMAIN text : SplitPriority(text, k) > 0 }
    IN  [ pos \in at |-> [ pos |-> pos, priority |-> SplitPriority(text, pos),
                           words_before |-> WordCount(SubSeq(text, 1, pos)) ] ]

\* the split points split_by_punctuation may choose from current_start_pos:
\* those behind it with at most max_words words in the chunk
Candidates(text, current_start_pos, max_words) ==
    LET points == SplitPoints(text)
    IN  { pos \in DOMAIN points :
            /\ pos > current_start_pos
            /\ points[pos].words_before - WordCount(Slice(text, 0, current_start_pos))
                   <= max_words }

\* diff - priority * 0.1, in tenths
AdjustedDiff(text, current_start_pos, max_words, pos) ==
    LET point == SplitPoints(text)[pos]
        words_in_chunk == point.words_before - WordCount(Slice(text, 0, current_start_pos))
    IN  10 * (max_words - words_in_chunk) - point.priority

\* best_point: the first point of the least adjusted_diff
BestPoint(text, current_start_pos, max_words) ==
    LET cands == Candidates(text, current_start_pos, max_words)
    IN  CHOOSE pos \in cands :
            \A other \in cands :
                LET a == AdjustedDiff(text, current_start_pos, max_words, pos)
                    b == AdjustedDiff(text, current_start_pos, max_words, other)
                IN  a < b \/ (a = b /\ pos <= other)

\* the while loop of split_by_punctuation
RECURSIVE SplitLoop(_, _, _, _, _)
SplitLoop(segment, text, max_words, current_start_pos, current_start_time) ==
    IF current_start_pos >= Len(text) THEN <<>>
    ELSE
    LET duration == segment.end - segment.start
        remaining_text == Strip(Slice(text, current_start_pos, Len(text)))
        forced_words == SubSeq(Split(remaining_text), 1, max_words)
        forced_join == Join(<<" ">>, forced_words)
        forced_text == IF ~EndsWithAny(forced_join, AsciiEndings \cup { <<",">> })
                       THEN forced_join \o <<",">> ELSE forced_join
        best_point == BestPoint(text, current_start_pos, max_words)
        chunk_text == Strip(Slice(text, current_start_pos, best_point))
    IN  IF WordCount(remaining_text) <= max_words
        THEN IF remaining_text = <<>> THEN <<>>
             ELSE << [ start |-> current_start_time, end |-> segment.end,
                       text |-> IF ~EndsWithAny(remaining_text, AsciiEndings)
                                THEN RStripChars(remaining_text, {".", ",", ";", ":"})
                                         \o <<".">>
                                ELSE remaining_text ] >>
        ELSE IF Candidates(text, current_start_pos, max_words) = {}
        THEN LET segment_duration == (duration * Len(forced_text)) \div Len(text)
             IN  << [ start |-> current_start_time,
                      end |-> current_start_time + segment_duration,
                      text |-> Strip(forced_text) ] >>
                     \o SplitLoop(segment, text, max_words,
                                  current_start_pos + Len(forced_text),
                                  current_start_time + segment_duration)
        ELSE LET segment_duration == (duration * Len(chunk_text)) \div Len(text)
             IN  << [ start |-> current_start_time,
                      end |-> current_start_time + segment_duration,
                      text |-> chunk_text ] >>
                     \o SplitLoop(segment, text, max_words, best_point,
                                  current_start_time + segment_duration)

\* the closing loop of split_by_punctuation; `seg == split_segments[-1]`
\* compares the dictionaries by value
SplitCleanup(split_segments) ==
    [ k \in DOMAIN split_segments |->
        LET seg == split_segments[k]
            text == Strip(seg.text)
        IN  IF /\ text # <<>>
               /\ ~EndsWithAny(text, AsciiEndings)
               /\ seg = split_segments[Len(split_segments)]
            THEN [ seg EXCEPT !.text = RStripChars(text, {".", ",", ";", ":"}) \o <<".">> ]
            ELSE seg ]

\* split_by_punctuation
SplitByPunctuation(segment, max_words) ==
    LET text == Strip(segment.text)
        split_segments == SplitCleanup(SplitLoop(segment, text, max_words, 0, segment.start))
    IN  IF WordCount(text) <= max_words THEN <<segment>>
        ELSE IF DOMAIN SplitPoints(text) = {} THEN SplitByWordCount(segment, max_words)
        ELSE IF split_segments # <<>> THEN split_segments ELSE <<segment>>

\* ===================================================== timestamp alignment

\* milliseconds of an SRT timestamp to ticks (h*3600 + m*60 + s + ms/1000.0)
ParseTimestamp(ms) == ms * 14

\* lang_char_rates.get(target_lang, 4.0), in tenths of a character per second
LangCharRate(lang) ==
    CASE lang = "zh" -> 35
      [] lang = "ja" -> 40
      [] lang = "ko" -> 40
      [] lang = "en" -> 140
      [] OTHER -> 40

\* target_rate = lang_char_rates.get(target_lang, 4.0) * speaker_rate,
\* in hundredths of a character per second
TargetRate(lang, rate) == LangCharRate(lang) * rate

\* estimated_duration = len(trans_text) / target_rate, in ticks
EstimatedDuration(len, lang, rate) == (len * 14000 * 100) \div TargetRate(lang, rate)

\* the HH:MM:SS,mmm text of a time: its whole milliseconds (truncated)
FormatTimestamp(t) == t \div 14

\* duration_ratio = estimated_duration / orig_duration if orig_duration > 0
\* else 1.0, as the fraction <<numerator, denominator>>
DurationRatio(estimated_duration, orig_duration) ==
    IF orig_duration > 0 THEN <<estimated_duration, orig_duration>> ELSE <<1, 1>>

\* ratio <= n/d
RatioLeq(ratio, n, d) == ratio[1] * d <= n * ratio[2]

MutCappedExtension(estimated_duration, orig_duration) ==
    estimated_duration - orig_duration

\* extension = min(estimated_duration - orig_duration, orig_duration * 0.5)
CappedExtension(estimated_duration, orig_duration) ==
    Min(estimated_duration - orig_duration, orig_duration \div 2)

CalculateAlignedTimestamps(start_time, end_time, orig_duration, trans_len, estimated_duration) ==
    LET duration_ratio == DurationRatio(estimated_duration, orig_duration)
        new_start == start_time
        new_end ==
            IF RatioLeq(duration_ratio, 10, 10) THEN end_time
            ELSE IF RatioLeq(duration_ratio, 13, 10)
                 THEN end_time + ((estimated_duration - orig_duration) \div 2)
            ELSE end_time + CappedExtension(estimated_duration, orig_duration)
        speed_adjustment ==
            IF RatioLeq(duration_ratio, 13, 10) THEN 100
            ELSE RoundDiv(100 * estimated_duration, new_end - new_start)
    IN  [ len |-> trans_len,
          start |-> new_start,
          end |-> new_end,
          time_range |-> <<FormatTimestamp(new_start), FormatTimestamp(new_end)>>,
          duration |-> new_end - new_start,
          estimated_tts_duration |-> estimated_duration,
          speed_adjustment |-> speed_adjustment,
          duration_ratio |-> RoundDiv(100 * duration_ratio[1], duration_ratio[2]) ]

\* one pass of the loop body of align_translation_timestamps
AlignOne(orig, trans_len, lang, rate) ==
    LET orig_duration == orig.end - orig.start
        seg == CalculateAlignedTimestamps(orig.start, orig.end, orig_duration,
                   trans_len, EstimatedDuration(trans_len, lang, rate))
    IN  [ len |-> seg.len, start |-> seg.start, end |-> seg.end,
          time_range |-> seg.time_range, duration |-> seg.duration,
          estimated_tts_duration |-> seg.estimated_tts_duration,
          speed_adjustment |-> seg.speed_adjustment,
          duration_ratio |-> seg.duration_ratio,
          index |-> orig.index,
          original_len |-> orig.len,
          original_duration |-> orig_duration ]

\* zip(original_segments, translated_texts) stops at the shorter list
AlignAll(origs, lens, lang, rate) ==
    [ i \in 1..Min(Len(origs), Len(lens)) |-> AlignOne(origs[i], lens[i], lang, rate) ]

MutShrinkPrev(prev, curr_start) ==
    LET new_prev_end == curr_start - 1400
    IN  [ prev EXCEPT !.end = new_prev_end,
                      !.time_range = <<FormatTimestamp(prev.start),
                                       FormatTimestamp(new_prev_end)>>,
                      !.duration = new_prev_end - prev.start ]

MutKeepDuration(prev, curr_start) ==
    LET new_prev_end == curr_start - 1400
    IN  IF new_prev_end > prev.start
        THEN [ prev EXCEPT !.end = new_prev_end ]
        ELSE prev

\* the body of "if curr_start < prev_end": gap = 0.1 s; the previous
\* segment is rewritten only if new_prev_end > its own start
ShrinkPrev(prev, curr_start) ==
    LET new_prev_end == curr_start - 1400
    IN  IF new_prev_end > prev.start
        THEN [ prev EXCEPT !.end = new_prev_end,
                           !.time_range = <<FormatTimestamp(prev.start),
                                            FormatTimestamp(new_prev_end)>>,
                           !.duration = new_prev_end - prev.start ]
        ELSE prev

RECURSIVE FixLoop(_, _, _)
\* iterations i..len(segments) of the for loop of _fix_timestamp_overlaps
FixLoop(fixed, segments, i) ==
    IF i > Len(segments) THEN fixed
    ELSE LET seg == segments[i]
             n == Len(fixed)
             prev_end == fixed[n].end
             curr_start == seg.start
             fixed1 == IF curr_start < prev_end
                       THEN [fixed EXCEPT ![n] = ShrinkPrev(fixed[n], curr_start)]
                       ELSE fixed
         IN  FixLoop(Append(fixed1, seg), segments, i + 1)

FixTimestampOverlaps(segments) ==
    IF Len(segments) < 2 THEN segments
    ELSE FixLoop(<<segments[1]>>, segments, 2)

\* ---- inputs: well-formed subtitle timings (start <= end, in order, no
\* overlap between the originals), on a grid of GridMs milliseconds
GridTimes == { ParseTimestamp(k * GridMs) : k \in 0..MaxGrid }

WellFormed(segs) ==
    /\ \A i \in DOMAIN segs : segs[i].start <= segs[i].end
    /\ \A i \in DOMAIN segs : i > 1 => segs[i-1].end <= segs[i].start

OriginalLists ==
    UNION { { s \in [1..n -> [index : {0}, start : GridTimes, end : GridTimes,
                              len : {2}]] : WellFormed(s) } : n \in 1..MaxSegs }

Reindex(segs) == [ i \in DOMAIN segs |-> [segs[i] EXCEPT !.index = i] ]

InitAlign ==
    /\ \E s \in OriginalLists : original_segments = Reindex(s)
    /\ translated_texts \in [1..Len(original_segments) -> 0..MaxLen]
    /\ target_lang \in {"zh", "en", "de"}
    /\ speaker_rate \in {10, 20}
    /\ calculated = <<>>
    /\ aligned_results = <<>>
    /\ align_pc = "input"
    /\ TranslateIdle
    /\ FeedbackIdle
    /\ ProcessIdle
    /\ PostIdle
    /\ AdvIdle

\* SubtitleManager.align_translation_timestamps
AlignTranslationTimestamps ==
    /\ align_pc = "input"
    /\ calculated' = AlignAll(original_segments, translated_texts, target_lang,
                              speaker_rate)
    /\ aligned_results' = FixTimestampOverlaps(calculated')
    /\ align_pc' = "done"
    /\ UNCHANGED <<original_segments, translated_texts, target_lang, speaker_rate>>
    /\ UNCHANGED align_frame

\* ==================================================== translate_subtitles

\* the None of "translated_subs = [None] * total"
None == [index |-> 0, time_range |-> <<>>, text |-> "None"]

\* batch_size = 1 for DeepLX, 10 for the AI engines
BatchSizeDeeplx == 1
BatchSizeAI == 10
\* max_retries = 2
MaxRetries == 2

BatchSize(engine) == IF engine = "deeplx" THEN BatchSizeDeeplx ELSE BatchSizeAI

\* batches = [(i, subtitles[i:i+batch_size]) for i in range(0, total, batch_size)]
\* batch b: batch_index is the 0-based offset of its first subtitle
Batches(total, batch_size) ==
    [ b \in 1..((total + batch_size - 1) \div batch_size) |->
        [ batch_index |-> (b - 1) * batch_size,
          size |-> Min(batch_size, total - (b - 1) * batch_size) ] ]

\* batch[j], j 0-based
BatchItem(batch, j) == subtitles[batch.batch_index + j + 1]

MutStoreIndex(batch_index, j) == j + 1

\* translated_subs[batch_index + j] (Python, 0-based) as a 1-based position
StoreIndex(batch_index, j) == batch_index + j + 1

MutShouldRetry(retry_count) == retry_count <= MaxRetries

\* if retry_count < max_retries
ShouldRetry(retry_count) == retry_count < MaxRetries

\* what the engine may answer for a batch of n texts: every text translated,
\* the first one empty, or every text echoed unchanged
ReplyKinds == {"translated", "first_empty", "echo"}

Reply(kind, batch) ==
    [ j \in 1..batch.size |->
        CASE kind = "translated" -> "dst"
          [] kind = "first_empty" -> IF j = 1 THEN "" ELSE "dst"
          [] OTHER -> BatchItem(batch, j - 1).text ]

\* "if not translated or not translated.strip(): translated_texts[i] = original"
FillEmpty(reply, batch) ==
    [ j \in 1..Len(reply) |->
        IF reply[j] = "" THEN BatchItem(batch, j - 1).text ELSE reply[j] ]

\* how a call of _translate_deeplx / _translate_batch can end: _translate_deeplx
\* catches every request error itself and always returns len(texts) entries;
\* _translate_batch raises on a failed request and may return a wrong count
CallOutcomes(engine) ==
    IF engine = "deeplx" THEN {"ok"} ELSE {"ok", "raise", "mismatch"}

SubtitleLists(n) ==
    [ i \in 1..n |-> [index |-> i, time_range |-> <<i, i + 1>>, text |-> "src"] ]

InitTranslate ==
    /\ engine_type \in {"deeplx", "deepseek"}
    /\ api_key \in BOOLEAN
    /\ thread_count \in 1..MaxThreads
    /\ \E n \in 0..(IF engine_type = "deeplx" THEN MaxDeeplxSubs ELSE MaxSubs) :
           subtitles = SubtitleLists(n)
    /\ translated_subs = <<>>
    /\ completed = 0
    /\ lock = 0
    /\ progress_calls = <<>>
    /\ failed_batches = <<>>
    /\ worker = <<>>
    /\ completion_order = <<>>
    /\ returned = <<>>
    /\ tr_pc = "start"
    /\ AlignIdle
    /\ FeedbackIdle
    /\ ProcessIdle
    /\ PostIdle
    /\ AdvIdle

\* translate_subtitles up to the submission of the workers: the API key
\* check, total, batch_size, batches, translated_subs = [None] * total
TranslateSubtitlesEnter ==
    /\ tr_pc = "start"
    /\ IF engine_type # "deeplx" /\ ~api_key
       THEN /\ tr_pc' = "raised"
            /\ UNCHANGED <<translated_subs, worker>>
       ELSE /\ tr_pc' = "running"
            /\ translated_subs' = [ i \in 1..Len(subtitles) |-> None ]
            /\ worker' = [ b \in DOMAIN Batches(Len(subtitles), BatchSize(engine_type)) |->
                   [ pc |-> "queued", retry_count |-> 0, calls |-> 0,
                     translated_texts |-> <<>>, j |-> 0, result |-> "None",
                     batch |-> Batches(Len(subtitles), BatchSize(engine_type))[b] ] ]
    /\ UNCHANGED <<engine_type, api_key, thread_count, subtitles, completed, lock,
                   progress_calls, failed_batches, completion_order, returned>>
    /\ UNCHANGED translate_frame

Running == { b \in DOMAIN worker : worker[b].pc \in {"call", "store", "fallback"} }

\* the executor hands the next queued task, in submission order, to a free
\* thread of its max_workers = thread_count threads
WorkerStart(b) ==
    /\ tr_pc = "running"
    /\ worker[b].pc = "queued"
    /\ \A a \in DOMAIN worker : a < b => worker[a].pc # "queued"
    /\ Cardinality(Running) < thread_count
    /\ worker' = [worker EXCEPT ![b].pc = "call"]
    /\ UNCHANGED <<engine_type, api_key, thread_count, subtitles, translated_subs,
                   completed, lock, progress_calls, failed_batches, completion_order,
                   returned, tr_pc>>
    /\ UNCHANGED translate_frame

\* translate_batch_worker: the try block up to "Store results", and the
\* except block's choice between retry and fallback
WorkerCall(b) ==
    /\ tr_pc = "running"
    /\ worker[b].pc = "call"
    /\ \E outcome \in CallOutcomes(engine_type), kind \in ReplyKinds :
        IF outcome = "ok"
        THEN worker' = [worker EXCEPT
                 ![b].calls = @ + 1,
                 ![b].translated_texts = FillEmpty(Reply(kind, worker[b].batch),
                                                   worker[b].batch),
                 ![b].j = 0,
                 ![b].pc = "store"]
        ELSE IF ShouldRetry(worker[b].retry_count)
        THEN worker' = [worker EXCEPT ![b].calls = @ + 1,
                                      ![b].retry_count = @ + 1]
        ELSE worker' = [worker EXCEPT ![b].calls = @ + 1,
                                      ![b].pc = "fallback"]
    /\ UNCHANGED <<engine_type, api_key, thread_count, subtitles, translated_subs,
                   completed, lock, progress_calls, failed_batches, completion_order,
                   returned, tr_pc>>
    /\ UNCHANGED translate_frame

MutCounted(count, n) == count + 1

\* "completed[0] += 1", executed once for each of the n subtitles a worker
\* stores while it holds the lock
Counted(count, n) == count + n

\* "progress_callback(completed[0], total)" after each of the n increments
ProgressCalls(count, n) == [ k \in 1..n |-> count + k ]

\* "with self._lock:" of the store loop (once per subtitle) and of the final
\* fallback (once for the whole batch): the worker waits until the lock is free
WorkerLock(b) ==
    /\ tr_pc = "running"
    /\ worker[b].pc \in {"store", "fallback"}
    /\ lock = 0
    /\ lock' = b
    /\ UNCHANGED <<engine_type, api_key, thread_count, subtitles, translated_subs,
                   completed, progress_calls, failed_batches, worker,
                   completion_order, returned, tr_pc>>
    /\ UNCHANGED translate_frame

\* one pass of the "Store results" loop: under the lock, write entry j of the
\* batch and count it; after the last entry the worker returns True
WorkerStore(b) ==
    /\ tr_pc = "running"
    /\ worker[b].pc = "store"
    /\ lock = b
    /\ LET w == worker[b]
           new_sub == [BatchItem(w.batch, w.j) EXCEPT
                          !.text = w.translated_texts[w.j + 1]]
           last == w.j + 1 = w.batch.size
       IN  /\ translated_subs' =
                  [translated_subs EXCEPT ![StoreIndex(w.batch.batch_index, w.j)] = new_sub]
           /\ completed' = Counted(completed, 1)
           /\ progress_calls' = progress_calls \o ProgressCalls(completed, 1)
           /\ lock' = 0
           /\ worker' = [worker EXCEPT
                  ![b].j = @ + 1,
                  ![b].pc = IF last THEN "done" ELSE "store",
                  ![b].result = IF last THEN "True" ELSE "None"]
           /\ completion_order' =
                  IF last THEN Append(completion_order, b) ELSE completion_order
    /\ UNCHANGED <<engine_type, api_key, thread_count, subtitles, failed_batches,
                   returned, tr_pc>>
    /\ UNCHANGED translate_frame

\* the final fallback: under the lock, every subtitle of the batch is copied
\* unchanged, counted, and the batch is recorded; the worker returns False
WorkerFallback(b) ==
    /\ tr_pc = "running"
    /\ worker[b].pc = "fallback"
    /\ lock = b
    /\ LET w == worker[b]
           mine == { StoreIndex(w.batch.batch_index, j) : j \in 0..(w.batch.size - 1) }
       IN  /\ translated_subs' =
                  [ i \in DOMAIN translated_subs |->
                        IF i \in mine THEN subtitles[i] ELSE translated_subs[i] ]
           /\ completed' = Counted(completed, w.batch.size)
           /\ progress_calls' = progress_calls \o ProgressCalls(completed, w.batch.size)
           /\ lock' = 0
           /\ failed_batches' = Append(failed_batches, w.batch.batch_index)
           /\ worker' = [worker EXCEPT ![b].pc = "done", ![b].result = "False"]
           /\ completion_order' = Append(completion_order, b)
    /\ UNCHANGED <<engine_type, api_key, thread_count, subtitles, returned, tr_pc>>
    /\ UNCHANGED translate_frame

\* after the executor has joined every worker: the None check and the return
TranslateSubtitlesReturn ==
    /\ tr_pc = "running"
    /\ \A b \in DOMAIN worker : worker[b].pc = "done"
    /\ translated_subs' =
           [ i \in DOMAIN translated_subs |->
                 IF translated_subs[i] = None THEN subtitles[i] ELSE translated_subs[i] ]
    /\ returned' = translated_subs'
    /\ tr_pc' = "returned"
    /\ UNCHANGED <<engine_type, api_key, thread_count, subtitles, completed, lock,
                   progress_calls, failed_batches, worker, completion_order>>
    /\ UNCHANGED translate_frame

NextAlign == AlignTranslationTimestamps

SpecAlign == InitAlign /\ [][NextAlign]_vars

NextTranslate ==
    \/ TranslateSubtitlesEnter
    \/ \E b \in DOMAIN worker : WorkerStart(b)
    \/ \E b \in DOMAIN worker : WorkerCall(b)
    \/ \E b \in DOMAIN worker : WorkerLock(b)
    \/ \E b \in DOMAIN worker : WorkerStore(b)
    \/ \E b \in DOMAIN worker : WorkerFallback(b)
    \/ TranslateSubtitlesReturn

SpecTranslate == InitTranslate /\ [][NextTranslate]_vars

\* ============================================================ FeedbackLoop

\* a quality report without bleu_score (no reference translation)
NoBleu == -1

ParamNames == {"merge_threshold", "max_segment_chars", "translation_batch_size",
               "vad_threshold"}

\* self.adjustable_params: merge_threshold in tenths, vad_threshold in
\* hundredths, the other two in their own units
ParamMin(name) ==
    CASE name = "merge_threshold" -> 3
      [] name = "max_segment_chars" -> 50
      [] name = "translation_batch_size" -> 5
      [] name = "vad_threshold" -> 30

ParamMax(name) ==
    CASE name = "merge_threshold" -> 20
      [] name = "max_segment_chars" -> 200
      [] name = "translation_batch_size" -> 20
      [] name = "vad_threshold" -> 70

ParamStep(name) ==
    CASE name = "merge_threshold" -> 1
      [] name = "max_segment_chars" -> 10
      [] name = "translation_batch_size" -> 5
      [] name = "vad_threshold" -> 5

ParamInitial(name) ==
    CASE name = "merge_threshold" -> 10
      [] name = "max_segment_chars" -> 120
      [] name = "translation_batch_size" -> 10
      [] name = "vad_threshold" -> 50

\* the defaults dictionary of reset()
ResetDefaults(name) ==
    CASE name = "merge_threshold" -> 10
      [] name = "max_segment_chars" -> 120
      [] name = "translation_batch_size" -> 10
      [] name = "vad_threshold" -> 50

\* self.thresholds; scores in thousandths, timestamp_error in milliseconds
Threshold(name) ==
    CASE name = "fragmentation" -> 300
      [] name = "timestamp_error" -> 100
      [] name = "coherence" -> 500
      [] name = "bleu" -> 300

\* step 5 of QualityEvaluator.evaluate: the mean of bleu_score (if any),
\* max(0, 1 - timestamp_error / 0.5), coherence_score and
\* 1 - fragmentation_score, rounded to 3 places
OverallScore(frag, ts, coh, bleu) ==
    LET timestamp_score == Max(0, 1000 - 2 * ts)
        rest == timestamp_score + coh + (1000 - frag)
    IN  IF bleu # NoBleu THEN RoundDiv(bleu + rest, 4) ELSE RoundDiv(rest, 3)

\* the dictionary returned by QualityEvaluator.evaluate ("details" left out)
Report(frag, ts, coh, bleu) ==
    [ fragmentation_score |-> frag, timestamp_error |-> ts, coherence_score |-> coh,
      bleu_score |-> bleu, overall_score |-> OverallScore(frag, ts, coh, bleu) ]

\* ts_error / self.thresholds["timestamp_error"], in thousandths
TimestampSeverity(ts_error) == (ts_error * 1000) \div Threshold("timestamp_error")

\* frag > self.thresholds["fragmentation"]
FragmentationFlagged(frag) == frag > Threshold("fragmentation")

\* FeedbackLoop.analyze_errors: severities in thousandths; the key
\* "translation" exists only if the report has a bleu_score
AnalyzeErrors(report) ==
    LET frag == report.fragmentation_score
        ts_error == report.timestamp_error
        coherence == report.coherence_score
        bleu == report.bleu_score
        keys == {"fragmentation", "timestamp", "coherence"}
                    \cup (IF bleu # NoBleu THEN {"translation"} ELSE {})
    IN  [ k \in keys |->
            CASE k = "fragmentation" -> IF FragmentationFlagged(frag) THEN frag ELSE 0
              [] k = "timestamp" ->
                    IF ts_error > Threshold("timestamp_error")
                    THEN TimestampSeverity(ts_error) ELSE 0
              [] k = "coherence" ->
                    IF coherence < Threshold("coherence") THEN 1000 - coherence ELSE 0
              [] k = "translation" ->
                    IF bleu < Threshold("bleu") THEN 1000 - bleu ELSE 0 ]

\* errors.get(key, 0)
ErrorsGet(errs, key) == IF key \in DOMAIN errs THEN errs[key] ELSE 0

MutIncrease(name, current) == current + ParamStep(name)

\* min(param["current"] + param["step"], param["max"])
Increase(name, current) == Min(current + ParamStep(name), ParamMax(name))

\* max(param["current"] - param["step"], param["min"])
Decrease(name, current) == Max(current - ParamStep(name), ParamMin(name))

MutAxisOf(name) ==
    CASE name = "merge_threshold" -> "fragmentation"
      [] name = "vad_threshold" -> "timestamp"
      [] name = "translation_batch_size" -> "translation"
      [] name = "max_segment_chars" -> "coherence"

\* the error axis whose flag makes suggest_adjustments touch a parameter
AxisOf(name) ==
    CASE name = "merge_threshold" -> "fragmentation"
      [] name = "vad_threshold" -> "timestamp"
      [] name = "translation_batch_size" -> "coherence"
      [] name = "max_segment_chars" -> "translation"

\* FeedbackLoop.suggest_adjustments ("reason" left out)
SuggestAdjustments(errs, params) ==
    LET touched == { name \in ParamNames : ErrorsGet(errs, AxisOf(name)) > 0 }
    IN  [ name \in touched |->
            [ current |-> params[name],
              suggested |->
                  IF name \in {"merge_threshold", "translation_batch_size"}
                  THEN Increase(name, params[name])
                  ELSE Decrease(name, params[name]) ] ]

\* FeedbackLoop.apply_adjustments
ApplyAdjustments(adjs, params) ==
    [ name \in DOMAIN params |->
        IF name \in DOMAIN adjs THEN adjs[name].suggested ELSE params[name] ]

\* "improved" of run_iteration, with h the history after the append
Improved(h) == IF Len(h) > 1 THEN h[Len(h)] > h[Len(h) - 1] ELSE FALSE

\* ---- sampled quality reports
Clamp01(x) == Max(0, Min(1000, x))
Around(t) == {0, Clamp01(t - Delta), t, Clamp01(t + Delta), 1000}

\* reports on a grid around every threshold
GridReports ==
    { Report(f, t, c, b) :
        f \in Around(Threshold("fragmentation")) \cup {500},
        t \in Around(Threshold("timestamp_error")),
        c \in Around(Threshold("coherence")),
        b \in {NoBleu} \cup Around(Threshold("bleu")) }

\* a healthy report, one with every axis flagged, one with fragmentation alone
FeedbackReports ==
    { Report(Threshold("fragmentation") - Delta, 0,
             Threshold("coherence") + Delta, Threshold("bleu") + Delta),
      Report(Threshold("fragmentation") + Delta, Threshold("timestamp_error") + Delta,
             Threshold("coherence") - Delta, Threshold("bleu") - Delta),
      Report(Threshold("fragmentation") + Delta, 0,
             Threshold("coherence") + Delta, NoBleu) }

\* parameter values the loop reaches: the initial value, the bound its
\* adjustments move towards, and one step before that bound
ParamSamples ==
    [ merge_threshold : {10, 19, 20}, max_segment_chars : {120, 60, 50},
      translation_batch_size : {10, 15, 20}, vad_threshold : {50, 35, 30} ]

\* FeedbackLoop.__init__
InitFeedbackLoop ==
    /\ adjustable_params = [ name \in ParamNames |-> ParamInitial(name) ]
    /\ history = <<>>
    /\ evaluation = [k \in {} |-> 0]
    /\ errors = [k \in {} |-> 0]
    /\ adjustments = [k \in {} |-> 0]
    /\ improved = FALSE
    /\ fb_pc = "init"

InitFeedback ==
    /\ InitFeedbackLoop
    /\ AlignIdle
    /\ TranslateIdle
    /\ ProcessIdle
    /\ PostIdle
    /\ AdvIdle

\* a FeedbackLoop some rounds into its life, about to analyse a report
InitAnalyze ==
    /\ adjustable_params \in ParamSamples
    /\ history = <<>>
    /\ evaluation \in GridReports
    /\ errors = [k \in {} |-> 0]
    /\ adjustments = [k \in {} |-> 0]
    /\ improved = FALSE
    /\ fb_pc = "input"
    /\ AlignIdle
    /\ TranslateIdle
    /\ ProcessIdle
    /\ PostIdle
    /\ AdvIdle

\* FeedbackLoop.analyze_errors(report)
AnalyzeErrorsCall(report) ==
    /\ evaluation' = report
    /\ errors' = AnalyzeErrors(report)
    /\ fb_pc' = "analyze_errors"
    /\ UNCHANGED <<adjustable_params, history, adjustments, improved>>
    /\ UNCHANGED feedback_frame

\* FeedbackLoop.suggest_adjustments(errors), errors being the last analysis
SuggestAdjustmentsCall ==
    /\ adjustments' = SuggestAdjustments(errors, adjustable_params)
    /\ fb_pc' = "suggest_adjustments"
    /\ UNCHANGED <<adjustable_params, history, evaluation, errors, improved>>
    /\ UNCHANGED feedback_frame

\* FeedbackLoop.apply_adjustments(adjustments), adjustments being the last
\* suggestion made
ApplyAdjustmentsCall ==
    /\ adjustable_params' = ApplyAdjustments(adjustments, adjustable_params)
    /\ fb_pc' = "apply_adjustments"
    /\ UNCHANGED <<history, evaluation, errors, adjustments, improved>>
    /\ UNCHANGED feedback_frame

\* FeedbackLoop.run_iteration, report being what self.evaluator.evaluate
\* returns for the segments passed in
RunIterationCall(report) ==
    /\ Len(history) < MaxHistory
    /\ evaluation' = report
    /\ errors' = AnalyzeErrors(report)
    /\ adjustments' = SuggestAdjustments(errors', adjustable_params)
    /\ history' = Append(history, report.overall_score)
    /\ improved' = Improved(history')
    /\ fb_pc' = "run_iteration"
    /\ UNCHANGED adjustable_params
    /\ UNCHANGED feedback_frame

\* FeedbackLoop.reset
ResetCall ==
    /\ adjustable_params' =
           [ name \in DOMAIN adjustable_params |->
                 IF name \in ParamNames THEN ResetDefaults(name)
                 ELSE adjustable_params[name] ]
    /\ history' = <<>>
    /\ fb_pc' = "reset"
    /\ UNCHANGED <<evaluation, errors, adjustments, improved>>
    /\ UNCHANGED feedback_frame

NextFeedback ==
    \/ \E report \in FeedbackReports : AnalyzeErrorsCall(report)
    \/ SuggestAdjustmentsCall
    \/ ApplyAdjustmentsCall
    \/ \E report \in FeedbackReports : RunIterationCall(report)
    \/ ResetCall

SpecFeedback == InitFeedback /\ [][NextFeedback]_vars

NextAnalyze ==
    \/ fb_pc = "input" /\ AnalyzeErrorsCall(evaluation)
    \/ fb_pc = "analyze_errors" /\ SuggestAdjustmentsCall

SpecAnalyze == InitAnalyze /\ [][NextAnalyze]_vars

\* ------------------------------------------------ AdvancedProcessor.process
\* the loop runs only if the first evaluation scores below 0.8
OptimizeThreshold == 800

\* result["translated_segments"] = [] and result["evaluation"] = None
NoRound == -1
NoEvaluation ==
    [ fragmentation_score |-> NoRound, timestamp_error |-> NoRound,
      coherence_score |-> NoRound, bleu_score |-> NoBleu, overall_score |-> NoRound ]

\* max_chars and min_duration (tenths of a second) of AdaptiveSegmenter.strategies
StrategyDefaults ==
    { [max_chars |-> 80, min_duration |-> 10], [max_chars |-> 150, min_duration |-> 20],
      [max_chars |-> 120, min_duration |-> 20], [max_chars |-> 100, min_duration |-> 15] }

\* reports process can get: evaluate is called without aligned segments and
\* without a reference, so timestamp_error is 0.0 and bleu_score is None
ProcessReports ==
    { Report(f, 0, c, NoBleu) :
        f \in {Threshold("fragmentation"), Threshold("fragmentation") + Delta},
        c \in {Threshold("coherence") - Delta, Threshold("coherence"), 1000} }

MutUpdatedStrategy(strat, params) == strat

\* the strategy after lines 1025-1026
UpdatedStrategy(strat, params) ==
    [ strat EXCEPT !.max_chars = params["max_segment_chars"],
                   !.min_duration = params["merge_threshold"] ]

\* what one round did: `before` the report of the segments the round
\* started from, `evaluation` the report of its re-processed output (NoEvaluation
\* if the round suggested no adjustments), `kept` whether result took the
\* output, `continued` whether the loop went on to another round
RoundRecord(before, adjusted, report, kept, continued) ==
    [ before |-> before, adjusted |-> adjusted, evaluation |-> report,
      kept |-> kept, continued |-> continued ]

\* AdvancedProcessor.__init__
InitProcess ==
    /\ InitFeedbackLoop
    /\ auto_optimize = FALSE
    /\ max_iterations = 0
    /\ translator_func = FALSE
    /\ loop_i = 0
    /\ processed = 0
    /\ cur_evaluation = NoEvaluation
    /\ result = [ processed_segments |-> NoRound, translated_segments |-> NoRound,
                  evaluation |-> NoEvaluation, iterations |-> 0 ]
    /\ strategy \in StrategyDefaults
    /\ rounds = <<>>
    /\ proc_pc = "idle"
    /\ AlignIdle
    /\ TranslateIdle
    /\ PostIdle
    /\ AdvIdle

\* process, lines 937-1000: analysis, first segmentation, translation and
\* evaluation, up to the decision to enter the loop
ProcessEnter(ao, mi, tf, report) ==
    /\ proc_pc = "idle"
    /\ Len(history) + mi <= MaxHistory
    /\ auto_optimize' = ao
    /\ max_iterations' = mi
    /\ translator_func' = tf
    /\ loop_i' = 0
    /\ processed' = 0
    /\ rounds' = <<>>
    /\ IF tf
       THEN /\ cur_evaluation' = report
            /\ result' = [ processed_segments |-> 0, translated_segments |-> 0,
                           evaluation |-> report, iterations |-> 0 ]
            /\ proc_pc' = IF ao /\ report.overall_score < OptimizeThreshold /\ mi > 0
                          THEN "loop" ELSE "done"
       ELSE /\ cur_evaluation' = NoEvaluation
            /\ result' = [ processed_segments |-> 0, translated_segments |-> NoRound,
                           evaluation |-> NoEvaluation, iterations |-> 0 ]
            /\ proc_pc' = "done"
    /\ UNCHANGED <<strategy, feedback_vars>>
    /\ UNCHANGED process_frame

\* one pass through the body of `for i in range(max_iterations)`, lines
\* 1003-1054; report is the evaluation of the re-segmented, re-translated output
ProcessRound(report) ==
    LET errs == AnalyzeErrors(cur_evaluation)
        adjs == SuggestAdjustments(errs, adjustable_params)
        hist == Append(history, cur_evaluation.overall_score)
        imp == Improved(hist)
        params == ApplyAdjustments(adjs, adjustable_params)
        before == cur_evaluation
        more == loop_i + 1 < max_iterations
    IN  /\ proc_pc = "loop"
        \* self.feedback.run_iteration(processed, translated_segments)
        /\ evaluation' = cur_evaluation
        /\ errors' = errs
        /\ adjustments' = adjs
        /\ history' = hist
        /\ improved' = imp
        /\ IF DOMAIN adjs = {}
           THEN /\ result' = [result EXCEPT !.iterations = loop_i + 1]
                /\ rounds' = Append(rounds,
                                 RoundRecord(before, FALSE, NoEvaluation, FALSE, FALSE))
                /\ proc_pc' = "done"
                /\ fb_pc' = "run_iteration"
                /\ UNCHANGED <<adjustable_params, strategy, processed, cur_evaluation,
                               loop_i>>
           ELSE /\ adjustable_params' = params
                /\ fb_pc' = "apply_adjustments"
                /\ strategy' = UpdatedStrategy(strategy, params)
                /\ processed' = loop_i + 1
                /\ cur_evaluation' = report
                /\ IF imp
                   THEN /\ result' = [ processed_segments |-> loop_i + 1,
                                       translated_segments |-> loop_i + 1,
                                       evaluation |-> report, iterations |-> loop_i + 1 ]
                        /\ rounds' = Append(rounds,
                                         RoundRecord(before, TRUE, report, TRUE, more))
                        /\ loop_i' = loop_i + 1
                        /\ proc_pc' = IF more THEN "loop" ELSE "done"
                   ELSE /\ result' = [result EXCEPT !.iterations = loop_i + 1]
                        /\ rounds' = Append(rounds,
                                         RoundRecord(before, TRUE, report, FALSE, FALSE))
                        /\ proc_pc' = "done"
                        /\ UNCHANGED loop_i
    /\ UNCHANGED <<auto_optimize, max_iterations, translator_func>>
    /\ UNCHANGED process_frame

\* return result, line 1056
ProcessReturn ==
    /\ proc_pc = "done"
    /\ proc_pc' = "idle"
    /\ UNCHANGED <<auto_optimize, max_iterations, translator_func, loop_i, processed,
                   cur_evaluation, result, strategy, rounds>>
    /\ UNCHANGED feedback_vars
    /\ UNCHANGED process_frame

\* processor.feedback.reset() between two calls of process
ProcessFeedbackReset ==
    /\ proc_pc = "idle"
    /\ history # <<>>
    /\ ResetCall

NextProcess ==
    \/ \E ao \in BOOLEAN, mi \in 0..MaxIterations, tf \in BOOLEAN,
          report \in ProcessReports : ProcessEnter(ao, mi, tf, report)
    \/ \E report \in ProcessReports : ProcessRound(report)
    \/ ProcessReturn
    \/ ProcessFeedbackReset

SpecProcess == InitProcess /\ [][NextProcess]_vars

\* ---------------------------------------------------- asr_post_processor.py
\* an ASRPostProcessor with tight limits
SmallParams ==
    [ min_segment_duration |-> 1500, max_segment_duration |-> 4000, min_words |-> 2,
      max_words |-> 6, merge_gap_threshold |-> 300 ]

\* sampled fragment texts: empty, lower-case start, trailing comma, a whole
\* sentence, a question without its mark, a digit first
FragTexts ==
    { <<>>,
      <<"a", " ", "b">>,
      <<"A", " ", "b", ",">>,
      <<"A", " ", "b", " ", "c", " ", "d", ".">>,
      <<"W", "h", "o", " ", "a", " ", "b", " ", "c">>,
      <<"3", " ", "b", ".">> }

\* texts given alone: two the fix table changes, white space only, a space
\* before the full stop, a full-width full stop
SingleTexts ==
    { <<"A", " ", "t", "h", ".">>,
      <<"Q", "o", "l", " ", "b", " ", "b", "u", "t">>,
      <<" ">>,
      <<"A", " ", ".">>,
      <<"A", " ", "b", "fw.">> }
FragDurations == {1000, 2000}
FragGaps == {0, 400, 1000}

\* short fragments for long merge windows
ChainTexts == { <<"a">>, <<"a", " ", "b", " ", "c", " ", "d">> }

\* the three fragments of the scenario, at contiguous timings
ScenarioSegments ==
    << [ start |-> 0, end |-> 2000, text |-> <<"S", "o", " ", "I", " ", "w", "a", "s", "n", "'", "t", " ", "g", "o", "i", "n", "g", " ", "t", "o">> ],
       [ start |-> 2000, end |-> 4000, text |-> <<"m", "a", "k", "e", " ", "a", " ", "s", "e", "c", "o", "n", "d", " ", "v", "i", "d", "e", "o">> ],
       [ start |-> 4000, end |-> 6000, text |-> <<"t", "o", "d", "a", "y", ",", " ", "b", "u", "t", " ", "i", "t", " ", "d", "r", "o", "p", "p", "e", "d", ".">> ] >>

\* a fragment list in time order from texts, durations and the gap in front
\* of each fragment
RECURSIVE Timeline(_, _, _, _)
Timeline(texts, durations, gaps, from) ==
    IF texts = <<>> THEN <<>>
    ELSE LET start == from + Head(gaps)
         IN  << [ start |-> start, end |-> start + Head(durations), text |-> Head(texts) ] >>
                 \o Timeline(Tail(texts), Tail(durations), Tail(gaps), start + Head(durations))

\* the first fragment starts at 0
FragmentLists ==
    { Timeline(texts, durations, <<0>> \o gaps, 0) :
        <<texts, durations, gaps>> \in
            UNION { [1..n -> FragTexts] \X [1..n -> FragDurations]
                        \X [1..(n - 1) -> FragGaps] : n \in 1..MaxFrags } }

SingleLists ==
    { << [ start |-> 0, end |-> duration, text |-> text ] >> :
        text \in SingleTexts, duration \in FragDurations }

ChainLists ==
    { Timeline(texts, durations, [k \in DOMAIN texts |-> 0], 0) :
        <<texts, durations>> \in
            UNION { [1..n -> ChainTexts] \X [1..n -> FragDurations] :
                    n \in (MaxFrags + 1)..MaxChain } }

\* characters of the texts given to split_by_punctuation
SplitChars == {"a", " ", ",", ".", "!"}
SplitTexts == UNION { [1..n -> SplitChars] : n \in 0..MaxText }

InitPost ==
    /\ \/ /\ pp_pc = "list"
          /\ pp_params = DefaultParams
          /\ pp_segments \in {<<>>, ScenarioSegments} \cup FragmentLists \cup SingleLists
          /\ pp_max_words = 0
       \/ /\ pp_pc = "list"
          /\ pp_params \in {DefaultParams, SmallParams}
          /\ pp_segments \in ChainLists
          /\ pp_max_words = 0
       \/ /\ pp_pc = "segment"
          /\ pp_params = DefaultParams
          /\ \E text \in SplitTexts :
                 pp_segments = << [ start |-> 0, end |-> 1000, text |-> text ] >>
          /\ pp_max_words \in {1, 2}
    /\ pp_merged = <<>>
    /\ pp_result = <<>>
    /\ AlignIdle
    /\ TranslateIdle
    /\ FeedbackIdle
    /\ ProcessIdle
    /\ AdvIdle

\* ASRPostProcessor(**pp_params, use_external_dict=False).optimize(pp_segments)
OptimizeCall ==
    /\ pp_pc = "list"
    /\ pp_merged' = (IF pp_segments = <<>> THEN <<>>
                     ELSE OptimizeMerged(pp_params, pp_segments))
    /\ pp_result' = Optimize(pp_params, pp_segments)
    /\ pp_pc' = "optimize"
    /\ UNCHANGED <<pp_params, pp_segments, pp_max_words>>
    /\ UNCHANGED post_frame

\* intelligent_merge_segments(pp_segments) with the default limits
IntelligentMergeSegmentsCall ==
    /\ pp_pc = "list"
    /\ pp_result' = IntelligentMergeSegments(pp_segments, 10000, 25, 150)
    /\ pp_pc' = "intelligent_merge_segments"
    /\ UNCHANGED <<pp_params, pp_segments, pp_max_words, pp_merged>>
    /\ UNCHANGED post_frame

\* split_by_punctuation(pp_segments[0], pp_max_words)
SplitByPunctuationCall ==
    /\ pp_pc = "segment"
    /\ pp_result' = SplitByPunctuation(pp_segments[1], pp_max_words)
    /\ pp_pc' = "split_by_punctuation"
    /\ UNCHANGED <<pp_params, pp_segments, pp_max_words, pp_merged>>
    /\ UNCHANGED post_frame

NextPost ==
    \/ OptimizeCall
    \/ IntelligentMergeSegmentsCall
    \/ SplitByPunctuationCall

SpecPost == InitPost /\ [][NextPost]_vars

\* ======================================================= AdaptiveSegmenter
\* Times are whole milliseconds; the proportional times of split parts are
\* floored to the millisecond.

ContentTypes == {"dialogue", "lecture", "technical", "narrative", "mixed"}

\* AdaptiveSegmenter.strategies (the keys the strategies read)
Strategies ==
    [ dialogue  |-> [ min_duration |-> 1000, max_duration |-> 5000,
                      min_chars |-> 10, max_chars |-> 80, sentences_per_segment |-> 2 ],
      lecture   |-> [ min_duration |-> 2000, max_duration |-> 10000,
                      min_chars |-> 30, max_chars |-> 150, sentences_per_segment |-> 2 ],
      technical |-> [ min_duration |-> 2000, max_duration |-> 8000,
                      min_chars |-> 20, max_chars |-> 120, sentences_per_segment |-> 2 ],
      narrative |-> [ min_duration |-> 2000, max_duration |-> 8000,
                      min_chars |-> 30, max_chars |-> 120, sentences_per_segment |-> 2 ],
      mixed     |-> [ min_duration |-> 1500, max_duration |-> 7000,
                      min_chars |-> 20, max_chars |-> 100, sentences_per_segment |-> 2 ] ]

\* re.split(r'(\?)', text) with every "?" joined to the text in front of it:
\* the values current_text takes when it is looked at
RECURSIVE QuestionChunks(_, _)
QuestionChunks(text, from) ==
    LET marks == { k \in from..Len(text) : text[k] = "?" }
        next == CHOOSE k \in marks : \A m \in marks : k <= m
    IN  IF marks = {} THEN << SubSeq(text, from, Len(text)) >>
        ELSE << SubSeq(text, from, next) >> \o QuestionChunks(text, next + 1)

\* the loop of _split_by_questions; questions is len(parts) // 2
RECURSIVE QuestionParts(_, _, _, _, _, _)
QuestionParts(chunks, text, start, duration, questions, parts_out) ==
    IF chunks = <<>> THEN parts_out
    ELSE
    LET current_text == Head(chunks)
        seg_duration == (duration * Len(current_text)) \div Len(text)
        seg_start == start + ((duration - seg_duration) * Len(parts_out)) \div Max(1, questions)
    IN  QuestionParts(Tail(chunks), text, start, duration, questions,
            IF Strip(current_text) # <<>>
            THEN Append(parts_out, [ start |-> seg_start, end |-> seg_start + seg_duration,
                                  text |-> Strip(current_text) ])
            ELSE parts_out)

\* AdaptiveSegmenter._split_by_questions(text, start, end)
SplitByQuestions(text, start, end) ==
    LET chunks == QuestionChunks(text, 1)
        parts_out == QuestionParts(chunks, text, start, end - start, Len(chunks) - 1, <<>>)
    IN  IF parts_out # <<>> THEN parts_out
        ELSE << [ start |-> start, end |-> end, text |-> text ] >>

\* AdaptiveSegmenter._segment_dialogue
RECURSIVE SegmentDialogue(_, _)
SegmentDialogue(segments, strat) ==
    IF segments = <<>> THEN <<>>
    ELSE
    LET seg == Head(segments)
        text == Strip(seg.text)
    IN  (IF Contains(text, <<"?">>) /\ Len(text) > strat.max_chars
         THEN SplitByQuestions(text, seg.start, seg.end)
         ELSE <<seg>>) \o SegmentDialogue(Tail(segments), strat)

\* len(re.findall(r'[.!?...]', text)), the full-width marks included
SentenceMarks == {".", "!", "?", "fw.", "fw!", "fw?"}
MutSentences(text) == Cardinality({ k \in DOMAIN text : text[k] \in SentenceMarks })
Sentences(text) == Max(1, Cardinality({ k \in DOMAIN text : text[k] \in SentenceMarks }))

\* the loop of _segment_lecture; started is "current is not None"
RECURSIVE LectureLoop(_, _, _, _, _)
LectureLoop(segments, strat, started, current, sentence_count) ==
    IF segments = <<>> THEN (IF started THEN <<current>> ELSE <<>>)
    ELSE
    LET seg == Head(segments)
        text == Strip(seg.text)
        fresh == [ start |-> seg.start, end |-> seg.end, text |-> text ]
    IN  IF ~started
        THEN LectureLoop(Tail(segments), strat, TRUE, fresh, Sentences(text))
        ELSE IF sentence_count + Sentences(text) <= strat.sentences_per_segment + 1
        THEN LectureLoop(Tail(segments), strat, TRUE,
                         [ current EXCEPT !.end = seg.end,
                                          !.text = current.text \o <<" ">> \o text ],
                         sentence_count + Sentences(text))
        ELSE <<current>> \o LectureLoop(Tail(segments), strat, TRUE, fresh, Sentences(text))

\* AdaptiveSegmenter._segment_lecture
SegmentLecture(segments, strat) ==
    LectureLoop(segments, strat, FALSE, [ start |-> 0, end |-> 0, text |-> <<>> ], 0)

\* \w of one character
Digits == {"0", "1", "2", "3", "4", "5", "6", "7", "8", "9"}
IsWordChar(c) == c \in AlphaSet \/ c \in Digits \/ c = "_"

\* \b at Python position p of text
WordAt(text, q) == q >= 0 /\ q < Len(text) /\ IsWordChar(text[q + 1])
WordBoundary(text, p) == WordAt(text, p - 1) # WordAt(text, p)

\* \b(term)\b, re.IGNORECASE, matches at position p
TermAt(text, p, term) ==
    /\ term # <<>>
    /\ p + Len(term) <= Len(text)
    /\ WordBoundary(text, p)
    /\ WordBoundary(text, p + Len(term))
    /\ \A k \in DOMAIN term : LowerChar(text[p + k]) = LowerChar(term[k])

\* term_pattern.finditer(text) from position p: (match.start(), match.end()) of
\* the matches, the leftmost first, the alternatives tried in list order
RECURSIVE ProtectedRanges(_, _, _)
ProtectedRanges(text, terms, p) ==
    LET starts == { q \in p..(Len(text) - 1) :
                      WordBoundary(text, q) /\ \E k \in DOMAIN terms : TermAt(text, q, terms[k]) }
        pstart == CHOOSE q \in starts : \A r \in starts : q <= r
        hits == { k \in DOMAIN terms : TermAt(text, pstart, terms[k]) }
        first == CHOOSE k \in hits : \A h \in hits : k <= h
    IN  IF starts = {} THEN <<>>
        ELSE << <<pstart, pstart + Len(terms[first])>> >>
             \o ProtectedRanges(text, terms, pstart + Len(terms[first]))

\* the characters _split_preserving_terms backs up to, and how far
Separators == {" ", ".", ",", ";", ":"}
BackUp == 20

\* split_points of _split_preserving_terms, from candidate i on
RECURSIVE TermSplitPoints(_, _, _, _)
TermSplitPoints(text, max_chars, protected_ranges, i) ==
    IF i >= Len(text) THEN <<>>
    ELSE
    LET safe == \A r \in DOMAIN protected_ranges :
                    ~(protected_ranges[r][1] <= i /\ i <= protected_ranges[r][2])
        found == { j \in (Max(i - BackUp, 0) + 1)..i : text[j + 1] \in Separators }
        j == CHOOSE x \in found : \A y \in found : y <= x
    IN  (IF safe /\ found # {} THEN <<j + 1>> ELSE <<>>)
        \o TermSplitPoints(text, max_chars, protected_ranges, i + max_chars)

\* the parts _split_preserving_terms cuts at the split points still to do
RECURSIVE SplitParts(_, _, _, _, _)
SplitParts(text, start, end, points, prev) ==
    LET duration == end - start
        At(pos) == start + (pos * duration) \div Len(text)
    IN  IF points = <<>>
        THEN IF prev < Len(text) /\ Strip(Slice(text, prev, Len(text))) # <<>>
             THEN << [ start |-> At(prev), end |-> end,
                       text |-> Strip(Slice(text, prev, Len(text))) ] >>
             ELSE <<>>
        ELSE LET point == Head(points)
                 part_text == Strip(Slice(text, prev, point))
             IN  (IF part_text # <<>>
                  THEN << [ start |-> At(prev), end |-> At(point), text |-> part_text ] >>
                  ELSE <<>>) \o SplitParts(text, start, end, Tail(points), point)

\* the protected ranges and the split points of one segment
SegmentRanges(seg, terms) ==
    IF terms # <<>> THEN ProtectedRanges(seg.text, terms, 0) ELSE <<>>
SegmentPoints(seg, strat, terms) ==
    TermSplitPoints(seg.text, strat.max_chars, SegmentRanges(seg, terms), strat.max_chars)

\* AdaptiveSegmenter._split_preserving_terms
SplitPreservingTerms(seg, strat, terms) ==
    LET split_points == SegmentPoints(seg, strat, terms)
        parts_out == SplitParts(seg.text, seg.start, seg.end, split_points, 0)
    IN  IF split_points = <<>> THEN <<seg>>
        ELSE IF parts_out # <<>> THEN parts_out ELSE <<seg>>

\* AdaptiveSegmenter._segment_technical
RECURSIVE SegmentTechnical(_, _, _)
SegmentTechnical(segments, strat, terms) ==
    IF segments = <<>> THEN <<>>
    ELSE
    LET seg == Head(segments)
    IN  (IF Len(Strip(seg.text)) > strat.max_chars
         THEN SplitPreservingTerms(seg, strat, terms)
         ELSE <<seg>>) \o SegmentTechnical(Tail(segments), strat, terms)

\* the loop of _segment_default; started is "current is not None"
RECURSIVE DefaultLoop(_, _, _, _)
DefaultLoop(segments, strat, started, current) ==
    IF segments = <<>> THEN (IF started THEN <<current>> ELSE <<>>)
    ELSE
    LET seg == Head(segments)
        text == Strip(seg.text)
        duration == seg.end - seg.start
        fresh == [ start |-> seg.start, end |-> seg.end, text |-> text ]
    IN  IF text = <<>> THEN DefaultLoop(Tail(segments), strat, started, current)
        ELSE IF ~started THEN DefaultLoop(Tail(segments), strat, TRUE, fresh)
        ELSE IF /\ Len(current.text) + Len(text) < strat.max_chars
                /\ current.end - current.start + duration < strat.max_duration
        THEN DefaultLoop(Tail(segments), strat, TRUE,
                         [ current EXCEPT !.end = seg.end,
                                          !.text = current.text \o <<" ">> \o text ])
        ELSE <<current>> \o DefaultLoop(Tail(segments), strat, TRUE, fresh)

\* AdaptiveSegmenter._segment_default
SegmentDefault(segments, strat) ==
    DefaultLoop(segments, strat, FALSE, [ start |-> 0, end |-> 0, text |-> <<>> ])

\* AdaptiveSegmenter.segment(segments, content_type, technical_terms)
Segment(segments, content_type, technical_terms) ==
    LET strat == Strategies[content_type]
    IN  IF content_type = "dialogue" THEN SegmentDialogue(segments, strat)
        ELSE IF content_type = "lecture" THEN SegmentLecture(segments, strat)
        ELSE IF content_type = "technical"
             THEN SegmentTechnical(segments, strat, technical_terms)
        ELSE SegmentDefault(segments, strat)

\* ---- the segmenter's inputs
Repeat(unit, n) == [ k \in 1..(n * Len(unit)) |-> unit[((k - 1) % Len(unit)) + 1] ]

NeuralNetwork == << "n", "e", "u", "r", "a", "l", " ", "n", "e", "t", "w", "o", "r", "k" >>
Version == << "1", ".", "2", ".", "3" >>
KnownTerms == << NeuralNetwork, Version, <<"A", "P", "I">> >>

\* fragments of a list: a text and the fragment's duration
FragmentKinds ==
    { [ text |-> <<>>, duration |-> 1000 ],
      [ text |-> <<" ">>, duration |-> 1000 ],
      [ text |-> Repeat(<<"a">>, 30), duration |-> 2000 ],
      [ text |-> Repeat(<<"b">>, 15) \o <<".", " ">> \o Repeat(<<"c">>, 15) \o <<".">>,
        duration |-> 2000 ],
      [ text |-> <<"D">> \o Repeat(<<"d">>, 30) \o <<".">>, duration |-> 2000 ],
      [ text |-> Repeat(<<"e">>, 50) \o <<"?", " ">> \o Repeat(<<"f">>, 40) \o <<"?", " ">>,
        duration |-> 4000 ] }

\* fragments longer than the technical strategy's max_chars: a term (or a
\* plain word) that starts at the offset, with text in front and behind
TermOffsets == {96, 105, 110, 116}
LongTexts ==
    { Repeat(<<"x">>, off - 1) \o <<" ">> \o term \o tail :
        off \in TermOffsets,
        term \in {NeuralNetwork, Version, <<"a", "p", "i">>, <<"y", "y", "y">>},
        tail \in { <<"-">> \o Repeat(<<"z">>, 20) \o <<" ", "z", ".">>,
                   <<" ">> \o Repeat(<<"z">>, 20) \o <<" ", "z", ".">> } }

RECURSIVE SegTimeline(_, _)
SegTimeline(kinds, start) ==
    IF kinds = <<>> THEN <<>>
    ELSE << [ start |-> start, end |-> start + Head(kinds).duration,
              text |-> Head(kinds).text ] >>
         \o SegTimeline(Tail(kinds), start + Head(kinds).duration)

SegmentLists ==
    { SegTimeline(kinds, 0) :
        kinds \in UNION { [1..n -> FragmentKinds] : n \in 0..MaxSegFrags } }
LongLists == { << [ start |-> 0, end |-> 6000, text |-> text ] >> : text \in LongTexts }

\* two fragments with silence between them
Gaps == {500, 4000}
GapLists ==
    { << [ start |-> 0, end |-> first.duration, text |-> first.text ],
         [ start |-> first.duration + gap, end |-> first.duration + gap + second.duration,
           text |-> second.text ] >> :
        first \in FragmentKinds, second \in FragmentKinds, gap \in Gaps }

InitSegment ==
    /\ seg_pc = "input"
    /\ seg_type \in ContentTypes
    /\ \/ seg_input \in SegmentLists /\ seg_terms = <<>>
       \/ seg_input \in GapLists /\ seg_terms = <<>>
       \/ seg_input \in LongLists /\ seg_terms \in {<<>>, KnownTerms}
    /\ seg_output = <<>>
    /\ seg_again = <<>>
    /\ BaseIdle
    /\ ContentIdle
    /\ QualityIdle
    /\ TermsIdle
    /\ PipelineIdle
    /\ ExportIdle
    /\ SrtIdle

\* seg_output = AdaptiveSegmenter().segment(seg_input, seg_type, seg_terms)
SegmentCall ==
    /\ seg_pc = "input"
    /\ seg_output' = Segment(seg_input, seg_type, seg_terms)
    /\ seg_pc' = "segmented"
    /\ UNCHANGED <<seg_type, seg_terms, seg_input, seg_again>>
    /\ UNCHANGED segment_frame

\* seg_again = AdaptiveSegmenter().segment(seg_output, seg_type, seg_terms)
SegmentAgainCall ==
    /\ seg_pc = "segmented"
    /\ seg_again' = Segment(seg_output, seg_type, seg_terms)
    /\ seg_pc' = "again"
    /\ UNCHANGED <<seg_type, seg_terms, seg_input, seg_output>>
    /\ UNCHANGED segment_frame

NextSegment ==
    \/ SegmentCall
    \/ SegmentAgainCall

SpecSegment == InitSegment /\ [][NextSegment]_vars

\* ========================================================= ContentAnalyzer
\* Scores are exact fractions until analyze rounds them to thousandths: with
\* word_count words in the text, raw scores are counted in units of
\* 1 / (20 * word_count).

\* the alternatives of the patterns \b(a|b|...)\b of TECHNICAL_PATTERNS
TECHNICAL_PATTERNS ==
    << CharsOf(<<"API", "SDK", "HTTP", "JSON", "XML", "SQL", "CPU", "GPU", "RAM", "SSD">>),
       CharsOf(<<"function", "class", "method", "variable", "parameter", "algorithm">>),
       CharsOf(<<"machine learning", "deep learning", "neural network", "AI", "ML">>),
       CharsOf(<<"database", "server", "client", "protocol", "framework">>) >>

\* \b(I|you|we|they|he|she)\s+(think|believe|feel|want|need)\b, the two
\* words one space apart
Persons == CharsOf(<<"I", "you", "we", "they", "he", "she">>)
Opinions == CharsOf(<<"think", "believe", "feel", "want", "need">>)
PersonOpinion ==
    [ k \in 1..(Len(Persons) * Len(Opinions)) |->
        Persons[((k - 1) \div Len(Opinions)) + 1] \o <<" ">>
        \o Opinions[((k - 1) % Len(Opinions)) + 1] ]

\* the patterns \b(a|b|...)\b of DIALOGUE_PATTERNS
DIALOGUE_PATTERNS ==
    << PersonOpinion,
       CharsOf(<<"yes", "no", "yeah", "okay", "ok", "sure", "right", "well">>),
       CharsOf(<<"said", "asked", "replied", "answered">>) >>
\* ^(so|and|but|because)\b
DialogueOpeners == CharsOf(<<"so", "and", "but", "because">>)

\* LECTURE_PATTERNS
LECTURE_PATTERNS ==
    << CharsOf(<<"today", "now", "let's", "let me", "I'll", "we'll">>),
       CharsOf(<<"first", "second", "third", "finally", "next", "then">>),
       CharsOf(<<"important", "key", "main", "essential", "fundamental">>),
       CharsOf(<<"example", "instance", "case", "scenario">>),
       CharsOf(<<"understand", "learn", "know", "remember", "note">>) >>

\* the matches of the patterns of a list, as <<start, end>> pairs
PatternRanges(text, patterns) ==
    [ k \in DOMAIN patterns |-> ProtectedRanges(text, patterns[k], 0) ]

RECURSIVE SumLen(_)
SumLen(seqs) == IF seqs = <<>> THEN 0 ELSE Len(Head(seqs)) + SumLen(Tail(seqs))

\* the maximal runs of \w characters, as <<start, end>> pairs
WordRuns(text) ==
    LET starts == { a \in 0..(Len(text) - 1) : WordAt(text, a) /\ ~WordAt(text, a - 1) }
        ends == { b \in 1..Len(text) : WordAt(text, b - 1) /\ ~WordAt(text, b) }
    IN  { <<a, CHOOSE b \in ends : b > a /\ \A e \in ends : e > a => b <= e>> : a \in starts }

\* \b[A-Z]{2,}[a-z]+[A-Z]\w*\b under re.IGNORECASE: a word whose first four
\* characters are letters
CamelRuns(text) ==
    { r \in WordRuns(text) :
        r[2] - r[1] >= 4 /\ \A q \in r[1]..(r[1] + 3) : IsAlpha(text[q + 1]) }

\* \b[A-Z]{2,}\b: a word of two or more upper-case letters
AcronymRuns(text) ==
    { r \in WordRuns(text) :
        r[2] - r[1] >= 2 /\ \A q \in r[1]..(r[2] - 1) : IsUpper(text[q + 1]) }

\* \b\d+\.\d+\.\d+\b: the match that starts at a, if there is one
DigitRun(text, a, b) == a < b /\ \A q \in a..(b - 1) : q < Len(text) /\ text[q + 1] \in Digits
VersionEnds(text, a) ==
    IF ~(WordBoundary(text, a) /\ text[a + 1] \in Digits) THEN {}
    ELSE { e \in (a + 5)..Len(text) :
             /\ WordBoundary(text, e)
             /\ \E d1 \in (a + 1)..(e - 4) :
                   /\ DigitRun(text, a, d1) /\ text[d1 + 1] = "."
                   /\ \E d2 \in (d1 + 2)..(e - 2) :
                         /\ DigitRun(text, d1 + 1, d2) /\ text[d2 + 1] = "."
                         /\ DigitRun(text, d2 + 1, e) }
RECURSIVE VersionRanges(_, _)
VersionRanges(text, p) ==
    LET starts == { a \in p..(Len(text) - 1) : VersionEnds(text, a) # {} }
        a == CHOOSE x \in starts : \A y \in starts : x <= y
        e == CHOOSE x \in VersionEnds(text, a) : \A y \in VersionEnds(text, a) : y <= x
    IN  IF starts = {} THEN {} ELSE { <<a, e>> } \cup VersionRanges(text, e)

\* the number of matches of the technical, dialogue and lecture patterns
TechnicalMatches(text) ==
    SumLen(PatternRanges(text, TECHNICAL_PATTERNS))
    + Cardinality(VersionRanges(text, 0)) + Cardinality(CamelRuns(text))
DialogueMatches(text) ==
    SumLen(PatternRanges(text, DIALOGUE_PATTERNS))
    + (IF EndsWith(text, <<"?">>) THEN 1 ELSE 0)
    + (IF \E k \in DOMAIN DialogueOpeners :
              StartsWith(Lower(text), DialogueOpeners[k])
              /\ WordBoundary(text, Len(DialogueOpeners[k]))
       THEN 1 ELSE 0)
LectureMatches(text) == SumLen(PatternRanges(text, LECTURE_PATTERNS))

\* len(text.split()) or 1
WordCountOr1(text) == IF WordCount(text) = 0 THEN 1 ELSE WordCount(text)

\* ContentAnalyzer._calculate_pattern_score: min(score / word_count * 10, 1.0),
\* in units of 1 / (20 * word_count)
CalculatePatternScore(text, matches) == Min(200 * matches, 20 * WordCountOr1(text))

\* ContentAnalyzer._detect_speaker_changes
IsQuestionStyle(text) == EndsWith(Strip(text), <<"?">>)
DetectSpeakerChanges(texts) ==
    Cardinality({ k \in 2..Len(texts) :
                    IsQuestionStyle(texts[k]) # IsQuestionStyle(texts[k - 1]) })

\* ContentAnalyzer._extract_technical_terms: the set of the matched texts
ExtractTechnicalTerms(text) ==
    LET ranges == PatternRanges(text, TECHNICAL_PATTERNS)
    IN  { Slice(text, r[1], r[2]) :
            r \in UNION { { ranges[k][x] : x \in DOMAIN ranges[k] } : k \in DOMAIN ranges }
                  \cup VersionRanges(text, 0) \cup CamelRuns(text) \cup AcronymRuns(text) }

\* the scores before normalisation, in units of 1 / (20 * word_count)
RawScores(texts) ==
    LET all_text == Join(<<" ">>, texts)
        word_count == WordCountOr1(all_text)
    IN  [ dialogue |-> CalculatePatternScore(all_text, DialogueMatches(all_text))
                       + 2 * word_count * DetectSpeakerChanges(texts),
          lecture |-> CalculatePatternScore(all_text, LectureMatches(all_text)),
          technical |-> CalculatePatternScore(all_text, TechnicalMatches(all_text))
                        + word_count * Cardinality(ExtractTechnicalTerms(all_text)) ]

\* detected_terms of analyze (the texts checked hold fewer than 20 terms)
DetectedTerms(texts) == ExtractTechnicalTerms(Join(<<" ">>, texts))

ScoreNames == <<"dialogue", "lecture", "technical">>

\* total = sum(scores.values()) or 1, in the unit of the raw scores
TotalOr1(raw, word_count) ==
    LET total == raw["dialogue"] + raw["lecture"] + raw["technical"]
    IN  IF total = 0 THEN 20 * word_count ELSE total

MutNormalize(raw, total, name) == RoundDiv(1000 * raw[name], 20 * total)

\* round(v / total, 3), in thousandths
Normalize(raw, total, name) == RoundDiv(1000 * raw[name], total)

\* ContentAnalyzer.analyze
Analyze(texts) ==
    LET raw == RawScores(texts)
        total == TotalOr1(raw, WordCountOr1(Join(<<" ">>, texts)))
        best == CHOOSE k \in DOMAIN ScoreNames :
                    /\ \A j \in DOMAIN ScoreNames : raw[ScoreNames[j]] <= raw[ScoreNames[k]]
                    /\ \A j \in 1..(k - 1) : raw[ScoreNames[j]] < raw[ScoreNames[k]]
        max_type == ScoreNames[best]
        confidence == Normalize(raw, total, max_type)
    IN  [ content_type |-> IF 5 * raw[max_type] < 2 * total THEN "mixed" ELSE max_type,
          confidence |-> confidence,
          scores |-> [ name \in {"dialogue", "lecture", "technical"} |->
                           Normalize(raw, total, name) ],
          detected_terms |-> DetectedTerms(texts),
          speaker_changes |-> DetectSpeakerChanges(texts) ]

\* ---- the analyzer's inputs
AnalyzedTexts ==
    { Chars(str) : str \in { "", "a cat", "ok?", "so it is", "I think so", "today we learn",
                             "the API server", "v 1.2.3 now" } }
AnalyzedLists == UNION { [1..n -> AnalyzedTexts] : n \in 0..MaxAnalyzed }

InitContent ==
    /\ ca_pc = "input"
    /\ ca_segments \in AnalyzedLists
    /\ ca_analysis = [k \in {} |-> 0]
    /\ BaseIdle
    /\ SegmentIdle
    /\ QualityIdle
    /\ TermsIdle
    /\ PipelineIdle
    /\ ExportIdle
    /\ SrtIdle

\* ca_analysis = ContentAnalyzer().analyze([{"text": t} for t in ca_segments])
AnalyzeCall ==
    /\ ca_pc = "input"
    /\ ca_analysis' = Analyze(ca_segments)
    /\ ca_pc' = "analyzed"
    /\ UNCHANGED ca_segments
    /\ UNCHANGED content_frame

NextContent == AnalyzeCall

SpecContent == InitContent /\ [][NextContent]_vars

\* ======================================================== QualityEvaluator
\* Scores are in thousandths, times in milliseconds. The n-gram score is
\* computed to two decimals and the coefficient of variation to four; round()
\* is taken on the exact value.

\* _get_ngrams(tokens, n): the n-grams in order of appearance
NGrams(tokens, n) == [ i \in 1..(Len(tokens) - n + 1) |-> SubSeq(tokens, i, i + n - 1) ]
NGramCount(ngrams, ng) == Cardinality({ i \in DOMAIN ngrams : ngrams[i] = ng })

\* the precision of the n-grams of a candidate, in hundredths
Precision(cand_tokens, ref_tokens, n) ==
    LET cand_ngrams == NGrams(cand_tokens, n)
        ref_ngrams == NGrams(ref_tokens, n)
        distinct == { cand_ngrams[i] : i \in DOMAIN cand_ngrams }
        Matches(ng) == Min(NGramCount(cand_ngrams, ng), NGramCount(ref_ngrams, ng))
        RECURSIVE SumMatches(_)
        SumMatches(set) ==
            IF set = {} THEN 0
            ELSE LET ng == CHOOSE x \in set : TRUE
                 IN  Matches(ng) + SumMatches(set \ {ng})
    IN  (100 * SumMatches(distinct)) \div Len(cand_ngrams)

RECURSIVE Product(_)
Product(values) == IF values = <<>> THEN 1 ELSE Head(values) * Product(Tail(values))
RECURSIVE Power(_, _)
Power(base, k) == IF k = 0 THEN 1 ELSE base * Power(base, k - 1)

\* math.exp(sum(math.log(p + 1e-10) for p in precisions) / len(precisions)),
\* in hundredths: the geometric mean
GeometricMean(precisions) ==
    CHOOSE r \in 0..100 :
        /\ Power(r, Len(precisions)) <= Product(precisions)
        /\ r = 100 \/ Power(r + 1, Len(precisions)) > Product(precisions)

\* math.exp(1 - r / c) for r > c, in thousandths
ExpTable ==
    [ rc \in { <<r, c>> \in (1..4) \X (1..4) : r > c } |->
        IF rc = <<2, 1>> THEN 368 ELSE IF rc = <<3, 1>> THEN 135
        ELSE IF rc = <<4, 1>> THEN 50 ELSE IF rc = <<3, 2>> THEN 607
        ELSE IF rc = <<4, 2>> THEN 368 ELSE 717 ]

\* bp = min(1.0, math.exp(1 - len(ref_tokens) / max(len(cand_tokens), 1)))
BrevityPenalty(ref_len, cand_len) ==
    IF ref_len <= cand_len THEN 1000 ELSE ExpTable[<<ref_len, cand_len>>]

\* what one candidate adds to total_score
PairScore(cand, ref) ==
    LET cand_tokens == Split(Lower(cand))
        ref_tokens == Split(Lower(ref))
        orders == Min(4, Len(cand_tokens))
        precisions == [ n \in 1..orders |-> Precision(cand_tokens, ref_tokens, n) ]
    IN  IF cand_tokens = <<>> \/ ref_tokens = <<>> THEN 0
        ELSE (BrevityPenalty(Len(ref_tokens), Len(cand_tokens))
              * GeometricMean(precisions)) \div 100

RECURSIVE TotalScore(_, _)
TotalScore(candidates, references) ==
    IF candidates = <<>> THEN 0
    ELSE PairScore(Head(candidates), Head(references))
         + TotalScore(Tail(candidates), Tail(references))

\* QualityEvaluator._calculate_bleu
CalculateBleu(candidates, references) ==
    IF Len(candidates) # Len(references) THEN 0
    ELSE RoundDiv(TotalScore(candidates, references), Max(Len(candidates), 1))

Abs(x) == IF x < 0 THEN -x ELSE x

RECURSIVE SumErrors(_, _, _)
SumErrors(original, aligned, k) ==
    IF k > Min(Len(original), Len(aligned)) THEN 0
    ELSE Abs(original[k].start - aligned[k].start) + Abs(original[k].end - aligned[k].end)
         + SumErrors(original, aligned, k + 1)

\* QualityEvaluator._calculate_timestamp_error, in ms
CalculateTimestampError(original, aligned) ==
    IF original = <<>> \/ aligned = <<>> THEN 0
    ELSE RoundDiv(SumErrors(original, aligned, 1), 2 * Min(Len(original), Len(aligned)))

WordSet(text) == LET words == Split(Lower(text)) IN { words[k] : k \in DOMAIN words }

\* the pairs of neighbours _calculate_coherence scores
CoherencePairs(texts) ==
    { i \in 2..Len(texts) : WordSet(texts[i - 1]) # {} /\ WordSet(texts[i]) # {} }
Intersection(texts, i) == Cardinality(WordSet(texts[i - 1]) \cap WordSet(texts[i]))
Union(texts, i) == Cardinality(WordSet(texts[i - 1]) \cup WordSet(texts[i]))

\* the sum of the Jaccard similarities of the pairs, as <<numerator, denominator>>
RECURSIVE SumJaccard(_, _)
SumJaccard(texts, pairs) ==
    IF pairs = {} THEN <<0, 1>>
    ELSE LET i == CHOOSE x \in pairs : TRUE
             rest == SumJaccard(texts, pairs \ {i})
         IN  << Intersection(texts, i) * rest[2] + rest[1] * Union(texts, i),
                Union(texts, i) * rest[2] >>

\* QualityEvaluator._calculate_coherence: round(min(avg_coherence / 0.2, 1.0), 3)
CalculateCoherence(texts) ==
    IF Len(texts) < 2 THEN 1000
    ELSE LET pairs == CoherencePairs(texts)
             total == SumJaccard(texts, pairs)
         IN  IF pairs = {} THEN 0
             ELSE Min(RoundDiv(5000 * total[1], total[2] * Cardinality(pairs)), 1000)

\* the largest r with r * r <= x, lo <= r <= hi
RECURSIVE SqrtBetween(_, _, _)
SqrtBetween(x, lo, hi) ==
    IF lo >= hi THEN lo
    ELSE LET mid == (lo + hi + 1) \div 2
         IN  IF mid * mid <= x THEN SqrtBetween(x, mid, hi) ELSE SqrtBetween(x, lo, mid - 1)

RECURSIVE SumLengths(_)
SumLengths(lengths) == IF lengths = <<>> THEN 0 ELSE Head(lengths) + SumLengths(Tail(lengths))

\* len(text) < 20 counts as short
ShortLength == 20

\* min(cv, 1), in units of 1/10000: cv * cv = (n * sum(l * l) - sum(l) ^ 2) / sum(l) ^ 2
VariationCoefficient(lengths) ==
    LET n == Len(lengths)
        total == SumLengths(lengths)
        squares == SumLengths([ k \in DOMAIN lengths |-> lengths[k] * lengths[k] ])
        spread == n * squares - total * total
    IN  IF total = 0 THEN 0
        ELSE IF spread >= total * total THEN 10000
        ELSE Min((100 * SqrtBetween(10000 * spread, 0, 100 * total)) \div total, 10000)

\* QualityEvaluator._calculate_fragmentation
CalculateFragmentation(segments) ==
    IF segments = <<>> THEN 0
    ELSE LET lengths == [ k \in DOMAIN segments |-> Len(segments[k].text) ]
             short_count == Cardinality({ k \in DOMAIN lengths : lengths[k] < ShortLength })
         IN  RoundDiv(60000 * short_count + 4 * VariationCoefficient(lengths) * Len(segments),
                      100 * Len(segments))

MutTimestampScore(timestamp_error) == 1000 - 2 * timestamp_error

\* timestamp_score = max(0, 1 - results["timestamp_error"] / 0.5)
TimestampScore(timestamp_error) == Max(0, 1000 - 2 * timestamp_error)

Texts(segments) == [ k \in DOMAIN segments |-> segments[k].text ]

\* QualityEvaluator.evaluate
Evaluate(original, translated, aligned, reference) ==
    LET bleu_score == IF reference # <<>>
                      THEN CalculateBleu(Texts(translated), reference)
                      ELSE NoBleu
        timestamp_error == IF aligned # <<>>
                           THEN CalculateTimestampError(original, aligned)
                           ELSE 0
        coherence_score == CalculateCoherence(Texts(translated))
        fragmentation_score == CalculateFragmentation(translated)
        timestamp_score == TimestampScore(timestamp_error)
        scores == (IF bleu_score # NoBleu THEN <<bleu_score>> ELSE <<>>)
                  \o << timestamp_score, coherence_score, 1000 - fragmentation_score >>
    IN  [ overall_score |-> RoundDiv(SumLengths(scores), Len(scores)),
          bleu_score |-> bleu_score,
          timestamp_error |-> timestamp_error,
          coherence_score |-> coherence_score,
          fragmentation_score |-> fragmentation_score,
          details |-> [ segment_count |-> Len(translated),
                        timestamp_score |-> timestamp_score ] ]

\* ---- the evaluator's inputs
EvaluatedTexts ==
    { Chars(str) : str \in { "", "a b", "a c", "b", "a b c d e f g h i j k l" } }
EvaluatedLists ==
    { SegTimeline([ k \in DOMAIN texts |-> [ text |-> texts[k], duration |-> 1000 ] ], 0) :
        texts \in UNION { [1..n -> EvaluatedTexts] : n \in 0..MaxEvaluated } }
AlignShifts == {0, 100, 600}
Shifted(segments, shift) ==
    [ k \in DOMAIN segments |-> [ segments[k] EXCEPT !.start = @ + shift,
                                                     !.end = @ + 2 * shift ] ]
References(n) ==
    { <<>>, <<Chars("a b")>> }
    \cup { [ k \in 1..n |-> ref ] : ref \in { Chars("a b"), Chars("b d a b") } }

InitQuality ==
    /\ qe_pc = "input"
    /\ qe_translated \in EvaluatedLists
    /\ qe_original = qe_translated
    /\ qe_aligned \in {<<>>} \cup { Shifted(qe_original, shift) : shift \in AlignShifts }
    /\ qe_reference \in References(Len(qe_translated))
    /\ qe_results = [k \in {} |-> 0]
    /\ BaseIdle
    /\ SegmentIdle
    /\ ContentIdle
    /\ TermsIdle
    /\ PipelineIdle
    /\ ExportIdle
    /\ SrtIdle

\* qe_results = QualityEvaluator().evaluate(qe_original, qe_translated,
\*                                          qe_aligned, qe_reference)
EvaluateCall ==
    /\ qe_pc = "input"
    /\ qe_results' = Evaluate(qe_original, qe_translated, qe_aligned, qe_reference)
    /\ qe_pc' = "evaluated"
    /\ UNCHANGED <<qe_original, qe_translated, qe_aligned, qe_reference>>
    /\ UNCHANGED quality_frame

NextQuality == EvaluateCall

SpecQuality == InitQuality /\ [][NextQuality]_vars

\* ====================================================== TerminologyManager

\* self.terms[key] = value
SetTerm(terms, key, value) ==
    [ k \in DOMAIN terms \cup {key} |-> IF k = key THEN value ELSE terms[k] ]

\* TerminologyManager.add_term(source, target)
AddTerm(terms, source, target) == SetTerm(terms, Lower(source), target)

\* TerminologyManager.get_translation(term); None when there is none
GetTranslation(terms, term) ==
    IF Lower(term) \in DOMAIN terms THEN terms[Lower(term)] ELSE None

MutAddNewTerm(terms, term) == SetTerm(terms, Lower(term), term)

\* the body of the loop of extract_and_add
AddNewTerm(terms, term) ==
    IF Lower(term) \notin DOMAIN terms THEN SetTerm(terms, Lower(term), term) ELSE terms

\* the loop of extract_and_add over new_terms
RECURSIVE AddNewTerms(_, _)
AddNewTerms(terms, new_terms) ==
    IF new_terms = <<>> THEN terms
    ELSE AddNewTerms(AddNewTerm(terms, Head(new_terms)), Tail(new_terms))

\* the orders list(set) can put the detected terms in
RECURSIVE Orders(_)
Orders(detected) ==
    IF detected = {} THEN { <<>> }
    ELSE UNION { { <<term>> \o rest : rest \in Orders(detected \ {term}) } : term \in detected }

\* ---- the manager's inputs
AddedSources == { Chars(str) : str \in {"API", "api", "Server"} }
AddedTargets == { Chars(str) : str \in {"x", "server"} }
ExtractedTexts == { Chars(str) : str \in {"a cat", "the API server", "an api", "API api 1.2.3"} }
ExtractedLists == UNION { [1..n -> ExtractedTexts] : n \in 0..MaxExtracted }

InitTerms ==
    /\ tm_pc = "input"
    /\ tm_terms = [k \in {} |-> 0]
    /\ tm_segments \in ExtractedLists
    /\ tm_before = [k \in {} |-> 0]
    /\ tm_once = [k \in {} |-> 0]
    /\ tm_added = 0
    /\ BaseIdle
    /\ SegmentIdle
    /\ ContentIdle
    /\ QualityIdle
    /\ PipelineIdle
    /\ ExportIdle
    /\ SrtIdle

\* self.add_term(source, target)
AddTermCall ==
    /\ tm_pc = "input"
    /\ tm_added < MaxAdded
    /\ \E source \in AddedSources, target \in AddedTargets :
           tm_terms' = AddTerm(tm_terms, source, target)
    /\ tm_added' = tm_added + 1
    /\ UNCHANGED <<tm_segments, tm_before, tm_once, tm_pc>>
    /\ UNCHANGED terms_frame

\* self.extract_and_add(tm_segments, ContentAnalyzer()), a first and a second time
ExtractAndAddCall ==
    /\ tm_pc \in {"input", "once"}
    /\ LET new_terms == DetectedTerms(tm_segments)
       IN  \E order \in Orders(new_terms) : tm_terms' = AddNewTerms(tm_terms, order)
    /\ tm_before' = (IF tm_pc = "input" THEN tm_terms ELSE tm_before)
    /\ tm_once' = (IF tm_pc = "input" THEN tm_terms' ELSE tm_once)
    /\ tm_pc' = (IF tm_pc = "input" THEN "once" ELSE "twice")
    /\ UNCHANGED <<tm_segments, tm_added>>
    /\ UNCHANGED terms_frame

NextTerms ==
    \/ AddTermCall
    \/ ExtractAndAddCall

SpecTerms == InitTerms /\ [][NextTerms]_vars

\* ========================================================= ASR2TTSPipeline
\* The collaborators (ASR, translation API, file system) are reduced to the
\* steps the pipeline takes with them, recorded in pl_stages.

\* ASR2TTSPipeline.__init__: translator_config
DefaultTranslatorConfig == [ api_key |-> FALSE, engine_type |-> "deepseek" ]

Entries == {"process", "process_srt"}
PipelineCalls ==
    [ entry : Entries, exists : BOOLEAN, skip_tts : BOOLEAN, target_lang : {"zh", "en"} ]

\* the step is recorded
Ran(step) == pl_stages' = Append(pl_stages, step)
Raise(exception) == pl_outcome' = exception /\ pl_pc' = "done"

InitPipeline ==
    /\ pl_pc = "ready"
    /\ pl_config = DefaultTranslatorConfig
    /\ pl_manager = FALSE
    /\ pl_call = [k \in {} |-> 0]
    /\ pl_stages = <<>>
    /\ pl_outcome = ""
    /\ pl_calls = 0
    /\ BaseIdle
    /\ SegmentIdle
    /\ ContentIdle
    /\ QualityIdle
    /\ TermsIdle
    /\ ExportIdle
    /\ SrtIdle

\* pipeline.configure_translator(api_key, engine_type=engine_type)
ConfigureTranslator ==
    /\ pl_pc = "ready"
    /\ \E key \in BOOLEAN, engine \in {"deepseek", "deeplx"} :
           pl_config' = [ api_key |-> key, engine_type |-> engine ]
    /\ UNCHANGED <<pl_manager, pl_call, pl_stages, pl_outcome, pl_calls, pl_pc>>
    /\ UNCHANGED pipeline_frame

\* process(...) / process_srt(...) is called: the existence check of the
\* input, then makedirs (process) or _init_translator (process_srt)
PipelineEnter ==
    /\ pl_pc = "ready"
    /\ pl_calls < MaxCalls
    /\ pl_calls' = pl_calls + 1
    /\ \E call \in PipelineCalls :
           /\ pl_call' = call
           /\ IF ~call.exists
              THEN /\ pl_stages' = <<>>
                   /\ Raise("FileNotFoundError")
                   /\ UNCHANGED pl_manager
              ELSE IF call.entry = "process"
              THEN /\ pl_stages' = <<"makedirs">>
                   /\ pl_outcome' = ""
                   /\ pl_pc' = "asr"
                   /\ UNCHANGED pl_manager
              ELSE /\ pl_stages' = <<"init_translator">>
                   /\ pl_outcome' = ""
                   /\ pl_pc' = "load"
                   /\ pl_manager' = TRUE
    /\ UNCHANGED pl_config
    /\ UNCHANGED pipeline_frame

\* process, stage 1 and 2: transcribe, save the ASR result, convert
ProcessAsr ==
    /\ pl_pc = "asr"
    /\ pl_stages' = pl_stages \o <<"asr", "write_asr_srt", "convert">>
    /\ pl_pc' = "translate"
    /\ UNCHANGED <<pl_config, pl_manager, pl_call, pl_outcome, pl_calls>>
    /\ UNCHANGED pipeline_frame

\* SubtitleManager.translate_subtitles as the pipeline calls it: the engine
\* and key are those _init_translator has set
TranslateRaises == pl_config.engine_type # "deeplx" /\ ~pl_config.api_key

\* process, stage 3: translate, or skip when no API key is configured
ProcessTranslate ==
    /\ pl_pc = "translate"
    /\ IF ~pl_config.api_key
       THEN /\ Ran("skip_translation")
            /\ pl_pc' = "save"
            /\ UNCHANGED <<pl_manager, pl_outcome>>
       ELSE /\ pl_manager' = TRUE
            /\ IF TranslateRaises
               THEN pl_stages' = pl_stages \o <<"init_translator">> /\ Raise("ValueError")
               ELSE /\ pl_stages' = pl_stages \o <<"init_translator", "translate">>
                    /\ pl_pc' = "save"
                    /\ UNCHANGED pl_outcome
    /\ UNCHANGED <<pl_config, pl_call, pl_calls>>
    /\ UNCHANGED pipeline_frame

\* process: self.subtitle_manager.save_srt(translated_subs, trans_srt_path)
ProcessSave ==
    /\ pl_pc = "save"
    /\ IF ~pl_manager
       THEN Raise("AttributeError") /\ UNCHANGED pl_stages
       ELSE Ran("write_translated_srt") /\ pl_pc' = "align" /\ UNCHANGED pl_outcome
    /\ UNCHANGED <<pl_config, pl_manager, pl_call, pl_calls>>
    /\ UNCHANGED pipeline_frame

\* process, stage 4 and 5: align, export; tts_engine is None, so TTS is skipped
ProcessAlign ==
    /\ pl_pc = "align"
    /\ pl_stages' = pl_stages \o <<"align", "write_alignment_json", "skip_tts">>
    /\ pl_outcome' = "returned"
    /\ pl_pc' = "done"
    /\ UNCHANGED <<pl_config, pl_manager, pl_call, pl_calls>>
    /\ UNCHANGED pipeline_frame

\* process_srt: parse the file, then translate, save, align and export when
\* an API key is configured
ProcessSrtRun ==
    /\ pl_pc = "load"
    /\ IF ~pl_config.api_key
       THEN /\ pl_stages' = pl_stages \o <<"parse_srt">>
            /\ pl_outcome' = "returned"
       ELSE IF TranslateRaises
       THEN /\ pl_stages' = pl_stages \o <<"parse_srt">>
            /\ pl_outcome' = "ValueError"
       ELSE /\ pl_stages' = pl_stages \o <<"parse_srt", "translate", "write_translated_srt",
                                           "align", "write_alignment_json">>
            /\ pl_outcome' = "returned"
    /\ pl_pc' = "done"
    /\ UNCHANGED <<pl_config, pl_manager, pl_call, pl_calls>>
    /\ UNCHANGED pipeline_frame

\* the caller has the result or the exception; the pipeline can be used again
PipelineDone ==
    /\ pl_pc = "done"
    /\ pl_pc' = "ready"
    /\ UNCHANGED <<pl_config, pl_manager, pl_call, pl_stages, pl_outcome, pl_calls>>
    /\ UNCHANGED pipeline_frame

NextPipeline ==
    \/ ConfigureTranslator
    \/ PipelineEnter
    \/ ProcessAsr
    \/ ProcessTranslate
    \/ ProcessSave
    \/ ProcessAlign
    \/ ProcessSrtRun
    \/ PipelineDone

SpecPipeline == InitPipeline /\ [][NextPipeline]_vars

\* ============================================ export_tts_alignment_data
\* Times of the aligned list are in ticks (1/14000 s), speed_adjustment in
\* hundredths.  tts_data holds times in ms and total_duration in hundredths
\* of a second.

\* round(x, ndigits) of n / d: the nearest multiple; at a tie the binary
\* value of the float decides, so either neighbour (up) can result
RoundTo(n, d, up) ==
    LET q == n \div d
        r == n % d
    IN  IF 2 * r > d \/ (2 * r = d /\ up) THEN q + 1 ELSE q

MutRound3(t, up) == RoundTo(t, 140, up) * 10

\* round(seg.get(..), 3), in ms
Round3(t, up) == RoundTo(t, 14, up)

\* round(total_duration, 2), in hundredths of a second
Round2(t, up) == RoundTo(t, 140, up)

\* max(seg['end'] for seg in aligned_segments) if aligned_segments else 0
TotalDuration(aligned) ==
    IF aligned = <<>> THEN 0
    ELSE CHOOSE e \in { aligned[k].end : k \in DOMAIN aligned } :
             \A k \in DOMAIN aligned : aligned[k].end <= e

\* tts_data
TtsData(aligned, up) ==
    [ metadata |-> [ total_duration |-> Round2(TotalDuration(aligned), up),
                     segment_count |-> Len(aligned) ],
      segments |-> [ k \in DOMAIN aligned |->
          [ index |-> aligned[k].index,
            start |-> Round3(aligned[k].start, up),
            end |-> Round3(aligned[k].end, up),
            duration |-> Round3(aligned[k].duration, up),
            speed_adjustment |-> aligned[k].speed_adjustment,
            original_duration |-> Round3(aligned[k].original_duration, up) ] ] ]

DigitChars == << "0", "1", "2", "3", "4", "5", "6", "7", "8", "9" >>

RECURSIVE IntText(_)
\* str(n) of an int n >= 0
IntText(n) ==
    IF n < 10 THEN << DigitChars[n + 1] >>
    ELSE Append(IntText(n \div 10), DigitChars[(n % 10) + 1])

\* repr(x) of the float x = n / 10^places, as json.dump writes it: the
\* shortest decimal text, with at least one fractional digit
FloatRepr(n, places) ==
    LET unit == Power(10, places)
        frac == n % unit
        digits == [ k \in 1..places |-> DigitChars[((frac \div Power(10, places - k)) % 10) + 1] ]
        used == { k \in 1..places : digits[k] # "0" }
        keep == IF used = {} THEN 1 ELSE CHOOSE k \in used : \A j \in used : j <= k
    IN  IntText(n \div unit) \o << "." >> \o SubSeq(digits, 1, keep)

\* json.dump(tts_data, f, ...): the number tokens of the document; an empty
\* list gives the int 0 as total_duration
JsonDump(data) ==
    [ metadata |->
          [ total_duration |-> IF data.segments = <<>> THEN IntText(0)
                               ELSE FloatRepr(data.metadata.total_duration, 2),
            segment_count |-> IntText(data.metadata.segment_count) ],
      segments |-> [ k \in DOMAIN data.segments |->
          [ index |-> data.segments[k].index,
            start |-> FloatRepr(data.segments[k].start, 3),
            end |-> FloatRepr(data.segments[k].end, 3),
            duration |-> FloatRepr(data.segments[k].duration, 3),
            speed_adjustment |-> FloatRepr(data.segments[k].speed_adjustment, 2),
            original_duration |-> FloatRepr(data.segments[k].original_duration, 3) ] ] ]

DigitValue(c) == CHOOSE d \in 0..9 : DigitChars[d + 1] = c

RECURSIVE IntValue(_)
\* int(text) of a digit text
IntValue(text) ==
    IF text = <<>> THEN 0
    ELSE 10 * IntValue(SubSeq(text, 1, Len(text) - 1)) + DigitValue(text[Len(text)])

\* the value of a JSON number token, in units of 10^-places
ParseNumber(text, places) ==
    LET dots == { k \in DOMAIN text : text[k] = "." }
    IN  IF dots = {} THEN IntValue(text) * Power(10, places)
        ELSE LET dot == CHOOSE k \in dots : TRUE
                 frac == SubSeq(text, dot + 1, Len(text))
             IN  IntValue(SubSeq(text, 1, dot - 1)) * Power(10, places)
                 + IntValue(frac) * Power(10, places - Len(frac))

\* json.load of the document: times in ms, total_duration and
\* speed_adjustment in hundredths
JsonLoad(doc) ==
    [ metadata |-> [ total_duration |-> ParseNumber(doc.metadata.total_duration, 2),
                     segment_count |-> ParseNumber(doc.metadata.segment_count, 0) ],
      segments |-> [ k \in DOMAIN doc.segments |->
          [ index |-> doc.segments[k].index,
            start |-> ParseNumber(doc.segments[k].start, 3),
            end |-> ParseNumber(doc.segments[k].end, 3),
            duration |-> ParseNumber(doc.segments[k].duration, 3),
            speed_adjustment |-> ParseNumber(doc.segments[k].speed_adjustment, 2),
            original_duration |-> ParseNumber(doc.segments[k].original_duration, 3) ] ] ]

\* ---- inputs: the lists align_translation_timestamps returns
ExportOriginals ==
    UNION { { o \in [1..n -> [index : {0}, start : GridTimes, end : GridTimes, len : {2}]] :
                WellFormed(o) } : n \in 0..MaxExported }

AlignedLists ==
    { FixTimestampOverlaps(AlignAll(Reindex(o), lens, lang, 10)) :
          o \in ExportOriginals, lens \in [1..MaxExported -> {0, MaxLen}], lang \in {"zh", "en"} }

InitExport ==
    /\ ex_aligned \in AlignedLists
    /\ ex_data = [k \in {} |-> 0]
    /\ ex_json = [k \in {} |-> 0]
    /\ ex_parsed = [k \in {} |-> 0]
    /\ ex_pc = "input"
    /\ BaseIdle
    /\ SegmentIdle
    /\ ContentIdle
    /\ QualityIdle
    /\ TermsIdle
    /\ PipelineIdle
    /\ SrtIdle

\* SubtitleManager.export_tts_alignment_data(aligned_segments, output_path)
ExportCall ==
    /\ ex_pc = "input"
    /\ \E up \in BOOLEAN : ex_data' = TtsData(ex_aligned, up)
    /\ ex_json' = JsonDump(ex_data')
    /\ ex_pc' = "exported"
    /\ UNCHANGED <<ex_aligned, ex_parsed>>
    /\ UNCHANGED export_frame

\* a consumer parses the document
ParseCall ==
    /\ ex_pc = "exported"
    /\ ex_parsed' = JsonLoad(ex_json)
    /\ ex_pc' = "parsed"
    /\ UNCHANGED <<ex_aligned, ex_data, ex_json>>
    /\ UNCHANGED export_frame

NextExport ==
    \/ ExportCall
    \/ ParseCall

SpecExport == InitExport /\ [][NextExport]_vars

\* ============================================================ SRT parsing
\* A file is a sequence of lines and a line a sequence of characters; the
\* parsed times are in ms.

IsDigit(c) == \E d \in DOMAIN DigitChars : DigitChars[d] = c

\* a line of whitespace only: together with the newlines around it, it is
\* matched by \s* of the pattern \n\s*\n
IsBlank(line) == \A k \in DOMAIN line : IsSpace(line[k])

RECURSIVE DropBlank(_)
DropBlank(lines) ==
    IF lines # <<>> /\ IsBlank(Head(lines)) THEN DropBlank(Tail(lines)) ELSE lines

RECURSIVE DropBlankEnd(_)
DropBlankEnd(lines) ==
    IF lines # <<>> /\ IsBlank(lines[Len(lines)])
    THEN DropBlankEnd(SubSeq(lines, 1, Len(lines) - 1))
    ELSE lines

\* text.strip() of a text given as its lines
StripLines(lines) ==
    LET inner == DropBlankEnd(DropBlank(lines))
    IN  [ k \in DOMAIN inner |->
            LET left == IF k = 1 THEN LStripChars(inner[k], {" "}) ELSE inner[k]
            IN  IF k = Len(inner) THEN RStripChars(left, {" "}) ELSE left ]

RECURSIVE SplitBlocksFrom(_, _)
SplitBlocksFrom(lines, block) ==
    IF lines = <<>> THEN (IF block = <<>> THEN <<>> ELSE <<block>>)
    ELSE IF IsBlank(Head(lines))
    THEN (IF block = <<>> THEN <<>> ELSE <<block>>) \o SplitBlocksFrom(Tail(lines), <<>>)
    ELSE SplitBlocksFrom(Tail(lines), Append(block, Head(lines)))

\* re.split(r'\n\s*\n', content.strip()): a separator is a maximal run of
\* blank lines with the newlines around it
SplitBlocks(lines) == SplitBlocksFrom(StripLines(lines), <<>>)

\* int(text) raises ValueError unless the text is a digit text
IntRaises(text) == text = <<>> \/ \E k \in DOMAIN text : ~IsDigit(text[k])

\* \d{2}:\d{2}:\d{2}[seps]\d{3} at position p of the line
StampAt(line, p, seps) ==
    /\ p + 11 <= Len(line)
    /\ \A k \in {0, 1, 3, 4, 6, 7, 9, 10, 11} : IsDigit(line[p + k])
    /\ line[p + 2] = ":"
    /\ line[p + 5] = ":"
    /\ line[p + 8] \in seps

\* the position after \s* matched from position p
SkipSpaces(line, p) ==
    CHOOSE q \in p..(Len(line) + 1) :
        /\ \A k \in p..(q - 1) : IsSpace(line[k])
        /\ q = Len(line) + 1 \/ ~IsSpace(line[q])

ArrowAt(line, q) ==
    /\ q + 2 <= Len(line)
    /\ line[q] = "-"
    /\ line[q + 1] = "-"
    /\ line[q + 2] = ">"

\* where the second timestamp begins once the first and the arrow matched
EndStamp(line) == SkipSpaces(line, SkipSpaces(line, 13) + 3)

\* re.match(<timestamp>\s*-->\s*<timestamp>, line): anchored at the start of
\* the line only
TimeMatch(line, seps) ==
    /\ StampAt(line, 1, seps)
    /\ ArrowAt(line, SkipSpaces(line, 13))
    /\ StampAt(line, EndStamp(line), seps)

\* time_to_seconds / _timestamp_to_seconds of the timestamp at position p
TimeToSeconds(line, p) ==
    (IntValue(SubSeq(line, p, p + 1)) * 3600
       + IntValue(SubSeq(line, p + 3, p + 4)) * 60
       + IntValue(SubSeq(line, p + 6, p + 7))) * 1000
    + IntValue(SubSeq(line, p + 9, p + 11))

TextLines(block) == SubSeq(block, 3, Len(block))

LongEnough(lines) == Len(lines) >= 3

\* SubtitleManager.parse_srt of a file with these lines
ManagerParse(file) ==
    LET kept == SelectSeq(SplitBlocks(file), LongEnough)
    IN  [ k \in DOMAIN kept |->
            [ index |-> kept[k][1],
              time_range |-> kept[k][2],
              text |-> Join(<<"\n">>, TextLines(kept[k])) ] ]

\* the loop body of SRTProcessor.parse_srt appends a segment
ProcessorKeeps(lines) ==
    /\ Len(lines) >= 3
    /\ ~IntRaises(Strip(lines[1]))
    /\ TimeMatch(lines[2], {","})

\* SRTProcessor.parse_srt of a content with these lines
ProcessorParse(file) ==
    LET blocks == SplitBlocks(file)
        stripped == [ k \in DOMAIN blocks |-> StripLines(blocks[k]) ]
        kept == SelectSeq(stripped, ProcessorKeeps)
    IN  [ k \in DOMAIN kept |->
            [ index |-> IntValue(Strip(kept[k][1])),
              start |-> TimeToSeconds(kept[k][2], 1),
              end |-> TimeToSeconds(kept[k][2], EndStamp(kept[k][2])),
              text |-> Strip(Join(<<" ">>, TextLines(kept[k]))) ] ]

\* the loop body of SRTParser.parse appends a SubtitleBlock
ParserKeeps(lines) ==
    /\ Len(lines) >= 3
    /\ ~IntRaises(Strip(lines[1]))
    /\ TimeMatch(Strip(lines[2]), {",", "."})

\* SRTParser.parse of a file with these lines
ParserParse(file) ==
    LET blocks == SplitBlocks(file)
        stripped == [ k \in DOMAIN blocks |-> StripLines(blocks[k]) ]
        kept == SelectSeq(stripped, ParserKeeps)
    IN  [ k \in DOMAIN kept |->
            [ index |-> IntValue(Strip(kept[k][1])),
              start_time |-> TimeToSeconds(Strip(kept[k][2]), 1),
              end_time |-> TimeToSeconds(Strip(kept[k][2]), EndStamp(Strip(kept[k][2]))),
              text |-> Strip(Join(<<" ">>, TextLines(kept[k]))) ] ]

\* ---- inputs
Digits2(n) == << DigitChars[(n \div 10) + 1], DigitChars[(n % 10) + 1] >>

\* HH:MM:SS<sep>mmm of a time in ms
StampText(ms, sep) ==
    Digits2(ms \div 3600000) \o <<":">> \o Digits2((ms \div 60000) % 60) \o <<":">>
        \o Digits2((ms \div 1000) % 60) \o <<sep>>
        \o << DigitChars[((ms \div 100) % 10) + 1] >> \o Digits2(ms % 100)

RangeLine(start, end, sep) ==
    StampText(start, sep) \o <<" ", "-", "-", ">", " ">> \o StampText(end, sep)

\* a block as it stands in a file: well-formed with one or two lines of
\* text, without text, with a word or a missing line for the index, with a
\* malformed arrow, with dots for the commas, with an indented time line
BlockKinds ==
    { << <<"1">>, RangeLine(1000, 2500, ","), <<"h", "i">> >>,
      << <<"1", "2">>, RangeLine(3723004, 3725000, ","), <<"h", "i">>, <<"y", "o">> >>,
      << <<"3">>, RangeLine(3000, 4000, ",") >>,
      << <<"a">>, RangeLine(4000, 5000, ","), <<"h", "i">> >>,
      << RangeLine(5000, 6000, ","), <<"h", "i">>, <<"y", "o">> >>,
      << <<"6">>, StampText(6000, ",") \o <<" ", "-", ">", " ">> \o StampText(7000, ","),
         <<"h", "i">> >>,
      << <<"7">>, RangeLine(7000, 8000, "."), <<"h", "i">> >>,
      << <<"8">>, <<" ">> \o RangeLine(8000, 9000, ","), <<"h", "i">> >> }

BlockLists == UNION { [1..n -> BlockKinds] : n \in 0..MaxBlocks }

\* the lines of the file: the blocks with one separating line between them
FileLines == Join(<<srt_blank>>, srt_blocks)

InitSrt ==
    /\ srt_blocks \in BlockLists
    /\ srt_blank \in {<<>>, <<" ">>}
    /\ srt_parser = "none"
    /\ srt_result = <<>>
    /\ srt_pc = "input"
    /\ BaseIdle
    /\ SegmentIdle
    /\ ContentIdle
    /\ QualityIdle
    /\ TermsIdle
    /\ PipelineIdle
    /\ ExportIdle

\* SubtitleManager.parse_srt
ManagerParseSrt ==
    /\ srt_pc = "input"
    /\ srt_parser' = "SubtitleManager"
    /\ srt_result' = ManagerParse(FileLines)
    /\ srt_pc' = "returned"
    /\ UNCHANGED <<srt_blocks, srt_blank>>
    /\ UNCHANGED srt_frame

\* SRTProcessor.parse_srt
ProcessorParseSrt ==
    /\ srt_pc = "input"
    /\ srt_parser' = "SRTProcessor"
    /\ srt_result' = ProcessorParse(FileLines)
    /\ srt_pc' = "returned"
    /\ UNCHANGED <<srt_blocks, srt_blank>>
    /\ UNCHANGED srt_frame

\* SRTParser.parse
SRTParserParse ==
    /\ srt_pc = "input"
    /\ srt_parser' = "SRTParser"
    /\ srt_result' = ParserParse(FileLines)
    /\ srt_pc' = "returned"
    /\ UNCHANGED <<srt_blocks, srt_blank>>
    /\ UNCHANGED srt_frame

NextSrt ==
    \/ ManagerParseSrt
    \/ ProcessorParseSrt
    \/ SRTParserParse

SpecSrt == InitSrt /\ [][NextSrt]_vars

\* ================================================================== claims

AlignDone == align_pc = "done"
Pairs == { i \in 1..Len(aligned_results) : i + 1 <= Len(aligned_results) }

\* C1: every list returned by align_translation_timestamps is free of
\* temporal overlap: for every adjacent pair, segments[i].end <=
\* segments[i+1].start.
C1_NoOverlap ==
    AlignDone => \A i \in Pairs : aligned_results[i].end <= aligned_results[i+1].start

\* C9 (as stated): start is kept; ratio <= 1.0 keeps the end; ratio <= 1.3
\* extends it by half the excess; otherwise it is extended by
\* min(excess, 0.5 * original_duration) and speed_adjustment is exactly
\* estimated / (new_end - start); the extension never exceeds 50% of the
\* original duration.
C9_Policy(exact) ==
    \A i \in DOMAIN calculated :
        LET o == original_segments[i]
            c == calculated[i]
            od == o.end - o.start
            est == c.estimated_tts_duration
            ext == c.end - o.end
            window == c.end - c.start
        IN  /\ est * TargetRate(target_lang, speaker_rate) = translated_texts[i] * 1400000
            /\ c.start = o.start
            /\ aligned_results[i].start = o.start
            /\ od > 0 /\ est <= od => ext = 0 /\ c.speed_adjustment = 100
            /\ od > 0 /\ est > od /\ 10 * est <= 13 * od =>
                   2 * ext = est - od /\ c.speed_adjustment = 100
            /\ od > 0 /\ 10 * est > 13 * od =>
                   /\ 2 * ext = Min(2 * (est - od), od)
                   /\ IF exact
                      THEN c.speed_adjustment * window = 100 * est
                      ELSE c.speed_adjustment = RoundDiv(100 * est, window)
            /\ od <= 0 => ext = 0 /\ c.speed_adjustment = 100
            /\ 2 * ext <= od
            /\ 2 * (aligned_results[i].end - o.end) <= od

C9_Original == AlignDone => C9_Policy(TRUE)

\* C9 (amended): as C9, with the reported speed_adjustment being
\* estimated / (new_end - start) rounded to two decimals, and a segment of
\* zero original duration left unchanged.
C9_Amended == AlignDone => C9_Policy(FALSE)

\* a segment of the third kind (ratio > 1.3) whose extension was capped and
\* whose speed_adjustment is not a whole number of hundredths before rounding
C9_Witness ==
    /\ AlignDone
    /\ \E i \in DOMAIN calculated :
        LET o == original_segments[i]
            c == calculated[i]
            od == o.end - o.start
        IN  /\ od > 0
            /\ 10 * c.estimated_tts_duration > 13 * od
            /\ 2 * (c.end - o.end) = od
            /\ c.speed_adjustment > 100
    /\ \E i \in DOMAIN calculated :
        LET o == original_segments[i]
            c == calculated[i]
            od == o.end - o.start
        IN  /\ od > 0 /\ c.estimated_tts_duration > od
            /\ 10 * c.estimated_tts_duration <= 13 * od

Returned == tr_pc = "returned"
BatchPositions(b) ==
    { worker[b].batch.batch_index + k : k \in 1..worker[b].batch.size }
InSeq(x, q) == \E k \in DOMAIN q : q[k] = x

\* C2: whatever the thread count and the order in which the batch workers
\* run and complete, translate_subtitles returns a list as long as its input,
\* position i holds the entry made from input subtitle i (same index and
\* time_range, text translated or the original), and no position is empty.
C2_OrderedComplete ==
    Returned =>
        /\ Len(returned) = Len(subtitles)
        /\ \A i \in DOMAIN returned :
            /\ returned[i] # None
            /\ returned[i].index = subtitles[i].index
            /\ returned[i].time_range = subtitles[i].time_range
            /\ returned[i].text \in {"dst", subtitles[i].text}

\* two threads, a later batch completed before an earlier one, and the
\* result holds translated as well as original text
C2_Witness ==
    /\ Returned
    /\ thread_count >= 2
    /\ Len(completion_order) >= 2
    /\ completion_order[1] > completion_order[2]
    /\ \E i \in DOMAIN returned : returned[i].text = "dst"
    /\ \E i \in DOMAIN returned : returned[i].text = subtitles[i].text

\* C3: a batch is attempted at most 3 times (1 attempt and at most 2
\* retries); a batch whose every attempt failed has all its subtitles in the
\* output with their original text and is recorded in failed_batches; no
\* exception of a batch reaches the caller, and translate_subtitles still
\* returns a complete result.
C3_RetryThenFallback ==
    /\ \A b \in DOMAIN worker :
        /\ worker[b].calls <= 3
        /\ worker[b].pc = "fallback" => worker[b].calls = 3
        /\ worker[b].result = "False" =>
            /\ worker[b].calls = 3
            /\ InSeq(worker[b].batch.batch_index, failed_batches)
            /\ \A i \in BatchPositions(b) : translated_subs[i] = subtitles[i]
    /\ tr_pc = "raised" => worker = <<>> /\ engine_type # "deeplx" /\ ~api_key
    /\ tr_pc = "running" => ENABLED NextTranslate
    /\ Returned =>
        /\ Len(returned) = Len(subtitles)
        /\ \A i \in DOMAIN returned : returned[i] # None
        /\ \A b \in DOMAIN worker : worker[b].result = "False" =>
               \A i \in BatchPositions(b) : returned[i] = subtitles[i]

\* the call returned although one batch failed three times and fell back,
\* while another batch was translated
C3_Witness ==
    /\ Returned
    /\ \E b \in DOMAIN worker :
        /\ worker[b].result = "False"
        /\ worker[b].calls = 3
        /\ worker[b].batch.size > 1
    /\ \E i \in DOMAIN returned : returned[i].text = "dst"

\* C4: after any sequence of run_iteration, suggest_adjustments,
\* apply_adjustments (of suggestions suggest_adjustments made) and reset,
\* every adjustable parameter satisfies min <= current <= max.
C4_ParamsWithinRange ==
    \A name \in ParamNames :
        /\ name \in DOMAIN adjustable_params
        /\ ParamMin(name) <= adjustable_params[name]
        /\ adjustable_params[name] <= ParamMax(name)

\* adjustments were applied that had been suggested with merge_threshold
\* and vad_threshold already at their bounds
C4_Witness ==
    /\ fb_pc = "apply_adjustments"
    /\ "merge_threshold" \in DOMAIN adjustments
    /\ adjustments["merge_threshold"].current = 20
    /\ adjustable_params["merge_threshold"] = 20
    /\ "vad_threshold" \in DOMAIN adjustments
    /\ adjustments["vad_threshold"].current = 30
    /\ adjustable_params["vad_threshold"] = 30
    /\ adjustable_params["max_segment_chars"] = 50
    /\ adjustable_params["translation_batch_size"] = 20

Suggested == fb_pc = "suggest_adjustments"

\* C7: suggest_adjustments returns exactly one adjustment per flagged axis
\* and none for an unflagged one: fragmentation -> merge_threshold plus one
\* step, timestamp -> vad_threshold minus one step, coherence ->
\* translation_batch_size plus one step, translation -> max_segment_chars
\* minus one step, each clamped to [min, max]; a report flagged on
\* fragmentation alone yields exactly one adjustment, on merge_threshold.
C7_OneAdjustmentPerFlaggedAxis ==
    Suggested =>
        LET flagged(axis) == axis \in DOMAIN errors /\ errors[axis] > 0
            has(name) == name \in DOMAIN adjustments
            cur(name) == adjustable_params[name]
        IN  /\ DOMAIN adjustments \subseteq ParamNames
            /\ has("merge_threshold") <=> flagged("fragmentation")
            /\ has("vad_threshold") <=> flagged("timestamp")
            /\ has("translation_batch_size") <=> flagged("coherence")
            /\ has("max_segment_chars") <=> flagged("translation")
            /\ has("merge_threshold") <=> evaluation.fragmentation_score > 300
            /\ has("vad_threshold") <=> evaluation.timestamp_error > 100
            /\ has("translation_batch_size") <=> evaluation.coherence_score < 500
            /\ has("max_segment_chars") <=>
                   evaluation.bleu_score # NoBleu /\ evaluation.bleu_score < 300
            /\ \A name \in DOMAIN adjustments : adjustments[name].current = cur(name)
            /\ has("merge_threshold") =>
                   adjustments["merge_threshold"].suggested =
                       Min(cur("merge_threshold") + 1, 20)
            /\ has("vad_threshold") =>
                   adjustments["vad_threshold"].suggested =
                       Max(cur("vad_threshold") - 5, 30)
            /\ has("translation_batch_size") =>
                   adjustments["translation_batch_size"].suggested =
                       Min(cur("translation_batch_size") + 5, 20)
            /\ has("max_segment_chars") =>
                   adjustments["max_segment_chars"].suggested =
                       Max(cur("max_segment_chars") - 10, 50)
            /\ \A name \in DOMAIN adjustments :
                   /\ ParamMin(name) <= adjustments[name].suggested
                   /\ adjustments[name].suggested <= ParamMax(name)

\* the scenario: fragmentation_score 0.5, every other axis healthy, and the
\* one adjustment raises merge_threshold by one step
C7_Witness ==
    /\ Suggested
    /\ evaluation.fragmentation_score = 500
    /\ evaluation.timestamp_error = 0
    /\ evaluation.coherence_score = 1000
    /\ evaluation.bleu_score = 1000
    /\ DOMAIN adjustments = {"merge_threshold"}
    /\ adjustments["merge_threshold"].current = 10
    /\ adjustments["merge_threshold"].suggested = 11

\* C8: analyze_errors flags an axis exactly when its value crosses the
\* threshold (fragmentation_score > 0.3, timestamp_error > 0.1 s,
\* coherence_score < 0.5, bleu_score < 0.3 when present), gives every
\* unflagged axis severity 0 and every flagged axis a severity in [0, 1].
C8_FlagsAndSeverity ==
    fb_pc \in {"analyze_errors", "suggest_adjustments"} =>
        LET crosses(axis) ==
                CASE axis = "fragmentation" -> evaluation.fragmentation_score > 300
                  [] axis = "timestamp" -> evaluation.timestamp_error > 100
                  [] axis = "coherence" -> evaluation.coherence_score < 500
                  [] axis = "translation" -> evaluation.bleu_score < 300
        IN  /\ DOMAIN errors = {"fragmentation", "timestamp", "coherence"} \cup
                   (IF evaluation.bleu_score # NoBleu THEN {"translation"} ELSE {})
            /\ \A axis \in DOMAIN errors :
                /\ errors[axis] > 0 <=> crosses(axis)
                /\ ~crosses(axis) => errors[axis] = 0
                /\ 0 <= errors[axis] /\ errors[axis] <= 1000

\* ---- the loop of AdvancedProcessor.process
RoundImproved(k) ==
    /\ rounds[k].adjusted
    /\ rounds[k].evaluation.overall_score > rounds[k].before.overall_score
RoundNotImproved(k) ==
    /\ rounds[k].adjusted
    /\ rounds[k].evaluation.overall_score <= rounds[k].before.overall_score

\* the last round up to which every round improved on the one before it,
\* 0 (the first pass) if the first round did not
RECURSIVE BestRound(_)
BestRound(k) ==
    IF k + 1 \in DOMAIN rounds /\ RoundImproved(k + 1) THEN BestRound(k + 1) ELSE k

\* the report of the segments of round BestRound(0)
BestEvaluation ==
    IF rounds = <<>> THEN cur_evaluation
    ELSE IF BestRound(0) = 0 THEN rounds[1].before
    ELSE rounds[BestRound(0)].evaluation

\* C5: the loop of process terminates: a round can always run while the loop
\* is on and each one counts towards max_iterations, never more than
\* max_iterations rounds are executed, and a round that suggests no
\* adjustments, or whose output does not score higher than the round before
\* it, is the last round.
C5_BoundedAndStopsEarly ==
    /\ Len(rounds) <= max_iterations
    /\ result.iterations <= max_iterations
    /\ proc_pc = "loop" => loop_i = Len(rounds) /\ loop_i < max_iterations
    /\ \A k \in DOMAIN rounds :
          /\ rounds[k].continued => k < Len(rounds) \/ proc_pc = "loop"
          /\ ~rounds[k].adjusted => ~rounds[k].continued
          /\ RoundNotImproved(k) => ~rounds[k].continued

\* C6: a round whose output scores higher than the round before it is kept as
\* the result and the loop goes on (unless max_iterations is reached); a round
\* that does not improve is discarded, and what process returns is the
\* segments and the evaluation of the best round before it.
C6_KeepImprovedDiscardOther ==
    /\ \A k \in DOMAIN rounds :
          /\ RoundImproved(k) =>
                rounds[k].kept /\ (rounds[k].continued \/ k = max_iterations)
          /\ RoundNotImproved(k) => ~rounds[k].kept /\ ~rounds[k].continued
    /\ proc_pc = "done" /\ translator_func =>
          /\ result.processed_segments = BestRound(0)
          /\ result.translated_segments = BestRound(0)
          /\ result.evaluation = BestEvaluation

\* ---- the sentence-boundary routines of asr_post_processor.py
PostDone == pp_pc \in {"optimize", "intelligent_merge_segments", "split_by_punctuation"}

\* C11 as stated: every segment emitted by optimize, intelligent_merge_segments
\* and split_by_punctuation has a text that ends in a terminal punctuation
\* mark (. ! ? or a full-width equivalent).
C11_Original ==
    PostDone => \A k \in DOMAIN pp_result : EndsSentence(pp_result[k].text)

\* C11 amended: every segment optimize emits ends in a terminal mark; every
\* segment intelligent_merge_segments emits ends in . ! or ? unless its text
\* is empty; split_by_punctuation returns a segment of at most max_words words
\* unchanged, and otherwise the last chunk ends in . ! or ? and every other
\* chunk in . ! ? , or ;
C11_Amended ==
    /\ pp_pc = "optimize" =>
          \A k \in DOMAIN pp_result : EndsSentence(pp_result[k].text)
    /\ pp_pc = "intelligent_merge_segments" =>
          \A k \in DOMAIN pp_result :
              pp_result[k].text = <<>> \/ EndsWithAny(pp_result[k].text, AsciiEndings)
    /\ pp_pc = "split_by_punctuation" =>
          IF WordCount(pp_segments[1].text) <= pp_max_words
          THEN pp_result = pp_segments
          ELSE /\ pp_result # <<>>
               /\ EndsWithAny(pp_result[Len(pp_result)].text, AsciiEndings)
               /\ \A k \in DOMAIN pp_result :
                      EndsWithAny(pp_result[k].text, AsciiEndings \cup { <<",">>, <<";">> })

\* split_by_punctuation has cut a segment and left a chunk ending in a comma,
\* the last chunk ending in a full stop it added
C11_Witness ==
    /\ pp_pc = "split_by_punctuation"
    /\ Len(pp_result) >= 2
    /\ EndsWith(pp_result[1].text, <<",">>)
    /\ ~EndsSentence(pp_segments[1].text)
    /\ EndsSentence(pp_result[Len(pp_result)].text)

\* ---- C12: when _smart_merge merges
\* the list _smart_merge is given inside optimize
MergeInput == FixPunctuation(StripAll(pp_segments))

\* the first fragment of every window _smart_merge formed
RECURSIVE WindowStarts(_, _, _)
WindowStarts(params, segs, i) ==
    IF i > Len(segs) THEN <<>>
    ELSE <<i>> \o WindowStarts(params, segs,
                               i + WindowSize(params, segs, i, 1, SegWordCount(segs[i])))

Starts == IF Len(MergeInput) < 2 THEN [ k \in DOMAIN MergeInput |-> k ]
          ELSE WindowStarts(pp_params, MergeInput, 1)
WindowEnd(k) == IF k < Len(Starts) THEN Starts[k + 1] - 1 ELSE Len(MergeInput)

\* the fragments that were merged into the window in front of them, as
\* <<first fragment of the window, merged fragment>>
MergedInto ==
    { <<i, j>> \in (DOMAIN MergeInput) \X (DOMAIN MergeInput) :
          \E k \in DOMAIN Starts : i = Starts[k] /\ i < j /\ j <= WindowEnd(k) }

ProjectedDuration(i, j) == MergeInput[j].end - MergeInput[i].start
ProjectedWords(i, j) == SumWords(SubSeq(MergeInput, i, j))
GapBefore(j) == MergeInput[j].start - MergeInput[j - 1].end
StartsLower(text) == text # <<>> /\ IsLower(text[1])
StartsUpper(text) == text # <<>> /\ IsUpper(text[1])
LastWord(text) ==
    IF Split(text) = <<>> THEN <<>>
    ELSE RStripChars(Lower(Split(text)[WordCount(text)]), {".", ",", ";", ":"})
EndsInContinuation(text) ==
    \/ EndsWithAny(Lower(text), CONTINUATION_ENDINGS)
    \/ LastWord(text) \in IncompleteEndings
BelowMinimum(words, duration) ==
    words < pp_params.min_words \/ duration < pp_params.min_segment_duration

WithinMaxima(i, j) ==
    /\ ProjectedDuration(i, j) <= pp_params.max_segment_duration
    /\ ProjectedWords(i, j) <= pp_params.max_words

\* the continuation conditions the claim lists, read generously: "accumulated
\* text" as the window so far or its last fragment, "short gap" as any gap
\* _should_merge lets through
ListedCondition(i, j) ==
    LET last == MergeInput[j - 1]
    IN  \/ StartsLower(MergeInput[j].text)
        \/ EndsInContinuation(last.text)
        \/ /\ ~EndsSentence(last.text)
           /\ \/ BelowMinimum(SegWordCount(last), Duration(last))
              \/ BelowMinimum(ProjectedWords(i, j - 1), ProjectedDuration(i, j - 1))
        \/ /\ ~EndsSentence(last.text)
           /\ GapBefore(j) <= pp_params.merge_gap_threshold * (j - i + 1)

\* every output segment built from two or more fragments is within both maxima
MergedWithinMaxima ==
    \A k \in DOMAIN pp_merged :
        WindowEnd(k) > Starts[k] =>
            /\ Duration(pp_merged[k]) <= pp_params.max_segment_duration
            /\ SegWordCount(pp_merged[k]) <= pp_params.max_words

\* the three fragments of the scenario become one segment ending in "."
ScenarioMerges ==
    pp_segments = ScenarioSegments /\ pp_params = DefaultParams =>
        /\ Len(pp_merged) = 1 /\ Len(pp_result) = 1
        /\ EndsWith(pp_result[1].text, <<".">>)
        /\ pp_result[1].start = 0 /\ pp_result[1].end = 6000

C13_NoEmptyText ==
    seg_pc = "segmented" =>
        \A k \in DOMAIN seg_output : Strip(seg_output[k].text) # <<>>

\* ---- C16: segment applied to its own output
\* every span of the list is within the bounds of the content type's strategy
WithinStrategyBounds(segments, content_type) ==
    \A k \in DOMAIN segments :
        LET strat == Strategies[content_type]
            seg == segments[k]
        IN  /\ strat.min_chars <= Len(seg.text) /\ Len(seg.text) <= strat.max_chars
            /\ strat.min_duration <= seg.end - seg.start
            /\ seg.end - seg.start <= strat.max_duration

\* C16: for every content type, segment applied to its own output, with the
\* same content type and terms, returns that output again (same count, text,
\* start and end) when all spans of the output are within the strategy's bounds.
C16_Idempotent ==
    seg_pc = "again" /\ WithinStrategyBounds(seg_output, seg_type) =>
        /\ Len(seg_again) = Len(seg_output)
        /\ \A k \in DOMAIN seg_output :
              /\ seg_again[k].text = seg_output[k].text
              /\ seg_again[k].start = seg_output[k].start
              /\ seg_again[k].end = seg_output[k].end

\* ---- C19: split points and protected terms
\* C19: in the technical strategy no split point _split_preserving_terms
\* uses lies inside the character span of a protected term.
C19_SplitOutsideTerms ==
    seg_pc = "segmented" /\ seg_type = "technical" =>
        \A k \in DOMAIN seg_input :
            LET seg == seg_input[k]
                strat == Strategies["technical"]
                ranges == SegmentRanges(seg, seg_terms)
                points == SegmentPoints(seg, strat, seg_terms)
            IN  Len(Strip(seg.text)) > strat.max_chars =>
                    \A x \in DOMAIN points : \A r \in DOMAIN ranges :
                        ~(ranges[r][1] < points[x] /\ points[x] < ranges[r][2])

\* ---- C14: the scores of ContentAnalyzer.analyze
ScoreSum ==
    ca_analysis.scores["dialogue"] + ca_analysis.scores["lecture"]
    + ca_analysis.scores["technical"]
ScoresInUnit == \A name \in DOMAIN ca_analysis.scores :
                    0 <= ca_analysis.scores[name] /\ ca_analysis.scores[name] <= 1000
\* three values rounded to thousandths
SumsToOne == 998 <= ScoreSum /\ ScoreSum <= 1002
NothingCounted ==
    LET raw == RawScores(ca_segments)
    IN  raw["dialogue"] + raw["lecture"] + raw["technical"] = 0

\* C14 as stated: for every non-empty segment list the scores sum to 1 within
\* rounding and each lies in [0,1], also when no pattern matches.
C14_Original ==
    ca_pc = "analyzed" /\ ca_segments # <<>> => SumsToOne /\ ScoresInUnit

\* C14 amended: each score lies in [0,1]; the scores sum to 1 within rounding
\* when a pattern match, a term or a speaker change was counted, and are all 0
\* when nothing was.
C14_Amended ==
    ca_pc = "analyzed" /\ ca_segments # <<>> =>
        /\ ScoresInUnit
        /\ IF NothingCounted
           THEN \A name \in DOMAIN ca_analysis.scores : ca_analysis.scores[name] = 0
           ELSE SumsToOne

\* analyze has normalised two raw scores that were not 0
C14_Witness ==
    /\ ca_pc = "analyzed"
    /\ Len(ca_segments) = 2
    /\ ca_analysis.scores["dialogue"] > 0
    /\ ca_analysis.scores["technical"] > 0
    /\ RawScores(ca_segments)["dialogue"] + RawScores(ca_segments)["technical"] > 20

\* ---- C15: the scores of QualityEvaluator.evaluate
\* the components that enter overall_score, read from the returned dictionary
PresentComponents ==
    (IF qe_results.bleu_score # NoBleu THEN <<qe_results.bleu_score>> ELSE <<>>)
    \o << qe_results.details.timestamp_score, qe_results.coherence_score,
          1000 - qe_results.fragmentation_score >>

\* C15: overall_score and every component that enters it lie in [0,1], and
\* overall_score is the arithmetic mean of the components that are present
\* (bleu_score only when a reference was given), to the three decimals
\* evaluate keeps.
C15_ScoresInUnitAndMean ==
    qe_pc = "evaluated" =>
        /\ \A k \in DOMAIN PresentComponents :
              0 <= PresentComponents[k] /\ PresentComponents[k] <= 1000
        /\ 0 <= qe_results.overall_score /\ qe_results.overall_score <= 1000
        /\ (qe_results.bleu_score # NoBleu) = (qe_reference # <<>>)
        /\ Len(PresentComponents) = (IF qe_reference # <<>> THEN 4 ELSE 3)
        /\ 2 * Abs(Len(PresentComponents) * qe_results.overall_score
                   - SumLengths(PresentComponents)) <= Len(PresentComponents)

\* evaluate ran with a reference and aligned segments far off: four
\* components, the timestamp score at its floor
C15_Witness ==
    /\ qe_pc = "evaluated"
    /\ qe_reference # <<>>
    /\ qe_results.bleu_score > 0
    /\ qe_results.timestamp_error > 500
    /\ qe_results.details.timestamp_score = 0
    /\ qe_results.fragmentation_score > 0

\* ---- C20: extract_and_add applied twice
DetectedKeys == { Lower(term) : term \in DetectedTerms(tm_segments) }

\* C20: extract_and_add adds only lower-cased keys that were not in the store,
\* leaves the target of every key that was there unchanged, and a second
\* call with the same segments leaves the store as the first call left it.
C20_Idempotent ==
    tm_pc \in {"once", "twice"} =>
        LET detected == DetectedKeys
        IN  /\ \A key \in DOMAIN tm_before :
                  key \in DOMAIN tm_once /\ tm_once[key] = tm_before[key]
            /\ \A key \in DOMAIN tm_once \ DOMAIN tm_before :
                  /\ key \in detected
                  /\ key = Lower(key)
                  /\ Lower(tm_once[key]) = key
            /\ detected \subseteq DOMAIN tm_once
            /\ tm_pc = "twice" => tm_terms = tm_once

\* the second call has returned; the first one had added a key and had found
\* another detected term already in the store with a target of its own
C20_Witness ==
    /\ tm_pc = "twice"
    /\ DOMAIN tm_once # DOMAIN tm_before
    /\ \E key \in DOMAIN tm_before :
           key \in DetectedKeys /\ GetTranslation(tm_terms, key) = Chars("x")

\* ---- C17: a missing API key
\* a call is running or has ended, its input exists, and the engine's API key
\* is missing
KeyMissing ==
    /\ pl_pc \notin {"idle", "ready"}
    /\ pl_call.exists
    /\ pl_config.engine_type # "deeplx"
    /\ ~pl_config.api_key

\* the steps that are the work of a pipeline stage
StageSteps ==
    {"asr", "write_asr_srt", "convert", "parse_srt", "translate", "write_translated_srt", "align", "write_alignment_json"}

\* C17: with the API key missing, process and process_srt run no step (no
\* ASR, translation, alignment or file writing) and end with a configuration
\* error.
C17_FailsFast ==
    KeyMissing =>
        /\ \A k \in DOMAIN pl_stages : pl_stages[k] \notin StageSteps
        /\ pl_pc = "done" => pl_outcome = "ValueError"

\* ---- C18: round trip of the alignment document
\* a parsed time (ms) and an in-memory time (ticks) differ by at most
\* tol thousandths of a second
TimeWithin(ms, ticks, tol) == Abs(ms * 14 - ticks) <= tol * 14

\* the parsed per-segment fields and segment_count match the aligned list
\* within 1e-3
SegmentsMatch ==
    /\ ex_parsed.metadata.segment_count = Len(ex_aligned)
    /\ Len(ex_parsed.segments) = Len(ex_aligned)
    /\ \A k \in DOMAIN ex_aligned :
           /\ TimeWithin(ex_parsed.segments[k].start, ex_aligned[k].start, 1)
           /\ TimeWithin(ex_parsed.segments[k].end, ex_aligned[k].end, 1)
           /\ TimeWithin(ex_parsed.segments[k].duration, ex_aligned[k].duration, 1)
           /\ TimeWithin(ex_parsed.segments[k].original_duration, ex_aligned[k].original_duration, 1)
           /\ ex_parsed.segments[k].speed_adjustment = ex_aligned[k].speed_adjustment

\* the parsed total_duration and the largest aligned end differ by at most
\* tol thousandths of a second
TotalWithin(tol) ==
    TimeWithin(ex_parsed.metadata.total_duration * 10, TotalDuration(ex_aligned), tol)

\* C18 as stated: every numeric field parsed from the exported document,
\* metadata.total_duration included, matches the aligned value within 1e-3.
C18_Original == ex_pc = "parsed" => SegmentsMatch /\ TotalWithin(1)

\* C18 amended: segment_count matches exactly and each segment's start, end,
\* duration, speed_adjustment and original_duration match within 1e-3;
\* metadata.total_duration, rounded to two decimals, matches the largest
\* aligned end within 5e-3.
C18_Amended == ex_pc = "parsed" => SegmentsMatch /\ TotalWithin(5)

\* a document was exported and parsed whose times were changed by the
\* rounding and whose total_duration is off by more than 1e-3
C18_Witness ==
    /\ ex_pc = "parsed"
    /\ \E k \in DOMAIN ex_aligned : ex_aligned[k].end % 14 # 0
    /\ ~TotalWithin(1)

\* ---- C29: what _fix_timestamp_overlaps changes
\* the fields of a segment that _fix_timestamp_overlaps never writes
KeptFields(seg) ==
    << seg.index, seg.start, seg.len, seg.speed_adjustment, seg.estimated_tts_duration,
       seg.duration_ratio, seg.original_len, seg.original_duration >>

\* C29: _fix_timestamp_overlaps keeps the number and order of the segments
\* and changes only end, duration and time_range, and only of a segment that
\* overlaps its successor; start, text, speed_adjustment and
\* estimated_tts_duration stay as they were, and duration = end - start holds
\* for every segment afterwards.
C29_FrameOfFix ==
    AlignDone =>
        /\ Len(aligned_results) = Len(calculated)
        /\ \A i \in DOMAIN aligned_results :
               /\ KeptFields(aligned_results[i]) = KeptFields(calculated[i])
               /\ aligned_results[i].duration = aligned_results[i].end - aligned_results[i].start
               /\ aligned_results[i] # calculated[i] =>
                      /\ i + 1 <= Len(calculated)
                      /\ calculated[i+1].start < calculated[i].end

\* the post-pass rewrote a segment of a list of two or more
C29_Witness ==
    /\ AlignDone
    /\ \E i \in Pairs :
           /\ aligned_results[i].end < calculated[i].end
           /\ aligned_results[i].duration < calculated[i].duration
           /\ aligned_results[i].time_range # calculated[i].time_range

\* ---- C24: the accumulator of the lecture strategy
Segmented == seg_pc # "input"

\* the sentence count of input fragment i, at least 1
CountedSentences(i) ==
    LET marks == { k \in DOMAIN Strip(seg_input[i].text) :
                     Strip(seg_input[i].text)[k] \in {".", "!", "?", "fw.", "fw!", "fw?"} }
    IN  IF marks = {} THEN 1 ELSE Cardinality(marks)

RECURSIVE Accumulated(_)
\* the accumulated sentence count once fragment i is in the accumulator
Accumulated(i) ==
    IF i = 1 THEN CountedSentences(1)
    ELSE LET before == Accumulated(i - 1)
         IN  IF before + CountedSentences(i) <= Strategies.lecture.sentences_per_segment + 1
             THEN before + CountedSentences(i)
             ELSE CountedSentences(i)

\* the fragments that start an accumulator: the first one and every one that
\* does not fit
Restarts ==
    { i \in DOMAIN seg_input :
        i = 1 \/ Accumulated(i - 1) + CountedSentences(i)
                     > Strategies.lecture.sentences_per_segment + 1 }

\* the fragments of the accumulator that fragment i starts
Block(i) == { j \in DOMAIN seg_input : j >= i /\ \A r \in Restarts : r > i => j < r }

\* the output segment of an accumulator is its k-th
Rank(i) == Cardinality({ r \in Restarts : r <= i })

RECURSIVE JoinedText(_, _)
\* the stripped texts of fragments i..j joined by single spaces
JoinedText(i, j) ==
    IF i = j THEN Strip(seg_input[i].text)
    ELSE JoinedText(i, j - 1) \o <<" ">> \o Strip(seg_input[j].text)

\* C24: in the lecture strategy a fragment joins the accumulator exactly when
\* the accumulated sentence count plus its own (at least 1 each) is at most
\* sentences_per_segment + 1, and otherwise starts a new one; the last
\* accumulator is flushed: the output has one segment per accumulator, in
\* order, from its first fragment's start to its last fragment's end.
C24_LectureAccumulator ==
    Segmented /\ seg_type = "lecture" =>
        /\ Len(seg_output) = Cardinality(Restarts)
        /\ \A i \in Restarts :
               LET last == CHOOSE j \in Block(i) : \A x \in Block(i) : x <= j
                   out == seg_output[Rank(i)]
               IN  /\ out.start = seg_input[i].start
                   /\ out.end = seg_input[last].end
                   /\ out.text = JoinedText(i, last)

\* three fragments went in: the first two were merged, the third did not
\* fit and was flushed at the end of the input
C24_Witness ==
    /\ Segmented /\ seg_type = "lecture"
    /\ Len(seg_input) = 3
    /\ Restarts = {1, 3}
    /\ Len(seg_output) = 2
    /\ CountedSentences(1) = 1 /\ seg_input[1].text # <<>>

\* ---- C25: the bounds of a merged segment of the default strategy
\* the output segment covers two or more input fragments
MergedOutput(out) ==
    Cardinality({ i \in DOMAIN seg_input :
                    /\ Strip(seg_input[i].text) # <<>>
                    /\ out.start <= seg_input[i].start
                    /\ seg_input[i].end <= out.end }) >= 2

\* C25: in the narrative / mixed strategy every output segment merged from
\* two or more fragments has a text shorter than max_chars and a duration,
\* end - start with the gaps between its fragments, under max_duration.
C25_MergedWithinBounds ==
    Segmented /\ seg_type \in {"narrative", "mixed"} =>
        \A k \in DOMAIN seg_output :
            MergedOutput(seg_output[k]) =>
                /\ Len(seg_output[k].text) < Strategies[seg_type].max_chars
                /\ seg_output[k].end - seg_output[k].start < Strategies[seg_type].max_duration

\* ---- C22: the times of the parts of a split fragment
\* one fragment went in and was split
SplitOne ==
    /\ Segmented
    /\ seg_type \in {"dialogue", "technical"}
    /\ Len(seg_input) = 1
    /\ Len(seg_output) > 1

\* the text whose length the split divides by
SplitText == IF seg_type = "dialogue" THEN Strip(seg_input[1].text) ELSE seg_input[1].text

\* the part's duration is its character share of the fragment's duration, up
\* to the millisecond and to the (at most two) blanks stripped from the part
Proportional(part) ==
    LET whole == seg_input[1].end - seg_input[1].start
        scaled == (part.end - part.start) * Len(SplitText)
    IN  /\ scaled >= whole * Len(part.text) - 2 * Len(SplitText)
        /\ scaled <= whole * (Len(part.text) + 2) + 2 * Len(SplitText)

\* C22: the parts of a split fragment (dialogue question split, technical
\* term-preserving split) are in order, do not overlap in time, lie within
\* the fragment's [start, end], and each has a duration proportional to its
\* character share of the fragment's text.
C22_SplitTimes ==
    SplitOne =>
        \A k \in DOMAIN seg_output :
            /\ seg_input[1].start <= seg_output[k].start
            /\ seg_output[k].start <= seg_output[k].end
            /\ seg_output[k].end <= seg_input[1].end
            /\ k > 1 => seg_output[k-1].end <= seg_output[k].start
            /\ Proportional(seg_output[k])

\* the same for the technical split alone
TechnicalSplitTimes == seg_type = "technical" => C22_SplitTimes

\* ---- C23: no over-long segment after the technical split
\* C23: over-length splitting leaves no over-long segment: where no safe
\* split point exists a forced split is made, so every segment the technical
\* strategy returns has at most max_chars characters.
C23_SplitWithinBound ==
    Segmented /\ seg_type = "technical" =>
        \A k \in DOMAIN seg_output :
            Len(Strip(seg_output[k].text)) <= Strategies.technical.max_chars

\* ---- C27: _smart_merge conserves the fragments
\* the k-th of the fragments in firsts, counted from the front
FirstOf(firsts, k) ==
    CHOOSE i \in firsts : Cardinality({ j \in firsts : j <= i }) = k

\* the last fragment in front of the next member of firsts
LastOf(firsts, k, n) ==
    IF k < Cardinality(firsts) THEN FirstOf(firsts, k + 1) - 1 ELSE n

\* output is input cut into runs of consecutive fragments that start at the
\* members of firsts: each output segment runs from the start of its first
\* fragment to the end of its last one and carries the fragments' texts
CutAt(firsts, input, output) ==
    /\ Len(output) = Cardinality(firsts)
    /\ \A k \in DOMAIN output :
           LET first == FirstOf(firsts, k)
               last == LastOf(firsts, k, Len(input))
           IN  /\ output[k].start = input[first].start
               /\ output[k].end = input[last].end
               /\ output[k].text =
                      IF first = last THEN input[first].text
                      ELSE Join(<<" ">>, [ j \in 1..(last - first + 1) |->
                               LET text == Strip(input[first + j - 1].text)
                               IN  IF text # <<>> /\ text[Len(text)] \in {",", ";", ":"}
                                   THEN SubSeq(text, 1, Len(text) - 1) ELSE text ])

\* C27: _smart_merge conserves fragments: the output segments are the input
\* fragments cut into consecutive runs, in input order, every fragment in
\* exactly one run, each segment from its first fragment's start to its last
\* fragment's end; the run still open at the end of the input is emitted.
C27_SmartMergeConserves ==
    pp_pc = "optimize" /\ pp_segments # <<>> =>
        \E firsts \in SUBSET (DOMAIN MergeInput) :
            /\ 1 \in firsts
            /\ CutAt(firsts, MergeInput, pp_merged)

\* a run of two or more fragments was still open at the end of the input and
\* was emitted, behind another segment
C27_Witness ==
    /\ pp_pc = "optimize"
    /\ Len(MergeInput) >= 3
    /\ Len(pp_merged) >= 2
    /\ Len(pp_merged) < Len(MergeInput)
    /\ pp_merged[Len(pp_merged)].end = MergeInput[Len(MergeInput)].end
    /\ pp_merged[Len(pp_merged)].start < MergeInput[Len(MergeInput)].start

\* ---- C28: suggestions for parameters at their bound
\* the axes analyze_errors flagged in the last run_iteration
FlaggedAxes == { axis \in DOMAIN errors : errors[axis] > 0 }

\* the parameter suggest_adjustments moves for an axis, and the bound it
\* moves towards
ParamOfAxis(axis) ==
    CASE axis = "fragmentation" -> "merge_threshold"
      [] axis = "timestamp" -> "vad_threshold"
      [] axis = "coherence" -> "translation_batch_size"
      [] axis = "translation" -> "max_segment_chars"
BoundOfAxis(axis) ==
    CASE axis = "fragmentation" -> 20
      [] axis = "timestamp" -> 30
      [] axis = "coherence" -> 20
      [] axis = "translation" -> 50

LastRound == rounds[Len(rounds)]

\* C28: a flagged axis gets an adjustment even when its parameter is at its
\* bound, then with suggested = current; so a round of process leaves the loop
\* as "no adjustments" only when no axis is flagged.
C28_SaturatedStillAdjusts ==
    rounds # <<>> =>
        /\ \A axis \in FlaggedAxes :
               /\ ParamOfAxis(axis) \in DOMAIN adjustments
               /\ adjustments[ParamOfAxis(axis)].current = BoundOfAxis(axis) =>
                      adjustments[ParamOfAxis(axis)].suggested = BoundOfAxis(axis)
        /\ ~LastRound.adjusted <=> FlaggedAxes = {}

\* a round found every flagged axis's parameter at its bound and went on as
\* an adjusted round
C28_Witness ==
    /\ rounds # <<>>
    /\ FlaggedAxes # {}
    /\ \A axis \in FlaggedAxes :
           /\ adjustments[ParamOfAxis(axis)].current = BoundOfAxis(axis)
           /\ adjustments[ParamOfAxis(axis)].suggested = BoundOfAxis(axis)
    /\ LastRound.adjusted

\* ---- C30: adjustments outlive a discarded round
\* the last round adjusted the parameters and its output was discarded, and
\* reset has not been called since
DiscardedRound ==
    /\ rounds # <<>>
    /\ LastRound.adjusted /\ ~LastRound.kept
    /\ fb_pc # "reset"

\* the values the round wrote are in effect
AdjustmentsInEffect ==
    /\ \A name \in DOMAIN adjustments : adjustable_params[name] = adjustments[name].suggested
    /\ strategy.max_chars = adjustable_params["max_segment_chars"]
    /\ strategy.min_duration = adjustable_params["merge_threshold"]

\* what a step may change: the parameters only by apply_adjustments in a
\* round or by reset, the strategy only in a round, and the history is
\* shortened only by reset, which also restores the defaults
OnlyRoundsAndReset ==
    /\ adjustable_params' # adjustable_params =>
           \/ proc_pc = "loop" /\ fb_pc' = "apply_adjustments"
           \/ fb_pc' = "reset"
    /\ strategy' # strategy => proc_pc = "loop" /\ fb_pc' = "apply_adjustments"
    /\ Len(history') < Len(history) =>
           /\ fb_pc' = "reset"
           /\ history' = <<>>
           /\ adjustable_params' = [ name \in DOMAIN adjustable_params |->
                                       CASE name = "merge_threshold" -> 10
                                         [] name = "max_segment_chars" -> 120
                                         [] name = "translation_batch_size" -> 10
                                         [] name = "vad_threshold" -> 50 ]

\* C30: the adjustments of a round whose output is discarded are not rolled
\* back: the FeedbackLoop values and the strategy's max_chars and
\* min_duration written in that round stay in effect when process returns and
\* in later calls; only reset restores the FeedbackLoop defaults and clears
\* the history.
C30_NoRollback ==
    /\ [](DiscardedRound => AdjustmentsInEffect)
    /\ [][OnlyRoundsAndReset]_vars

\* process has returned after a round that changed a parameter and was
\* discarded: result holds the output from before the round
C30_Witness ==
    /\ DiscardedRound
    /\ proc_pc = "idle"
    /\ \E name \in DOMAIN adjustments : adjustments[name].suggested # adjustments[name].current
    /\ result.evaluation = LastRound.before
    /\ result.evaluation # LastRound.evaluation

\* the subtitles some worker has stored so far
Stored == { i \in DOMAIN translated_subs : translated_subs[i] # None }

\* a step that changes the counter or calls progress_callback is taken by the
\* worker that holds the lock, and the step releases the lock
CountedUnderLock ==
    (completed' # completed \/ progress_calls' # progress_calls) =>
        /\ lock \in DOMAIN worker
        /\ worker[lock].pc \in {"store", "fallback"}
        /\ worker'[lock] # worker[lock]
        /\ \A b \in DOMAIN worker : b # lock => worker'[b] = worker[b]
        /\ lock' = 0

\* C26: the progress counter is changed only by the worker that holds the
\* lock and counts every subtitle once, translated or fallen back: the k-th
\* value passed to progress_callback is k, the counter is the number of
\* subtitles stored so far, and when translate_subtitles returns it is the
\* number of subtitles, under every interleaving and every pattern of retries.
C26_ProgressCounter ==
    /\ [](/\ Len(progress_calls) = completed
          /\ \A k \in DOMAIN progress_calls : progress_calls[k] = k
          /\ tr_pc = "running" => completed = Cardinality(Stored)
          /\ Returned => completed = Len(subtitles))
    /\ [][CountedUnderLock]_vars

\* two threads: the second batch was counted before the first, one batch
\* was translated after a retry and one fell back after three failed calls
C26_Witness ==
    /\ Returned
    /\ thread_count >= 2
    /\ Len(progress_calls) = MaxSubs
    /\ Len(completion_order) = 2
    /\ completion_order[1] > completion_order[2]
    /\ \E b \in DOMAIN worker : worker[b].result = "True" /\ worker[b].retry_count >= 1
    /\ \E b \in DOMAIN worker : worker[b].result = "False"

\* a block of the SRT format: a number, a time range "HH:MM:SS,mmm -->
\* HH:MM:SS,mmm", and at least one line of text
IndexLines == { IntText(n) : n \in 0..20 }
RangeLines ==
    { RangeLine(s, e, ",") : s \in {1000, 3723004, 3000, 4000, 5000, 6000, 7000, 8000},
                             e \in {2500, 3725000, 4000, 5000, 6000, 7000, 8000, 9000} }
WellFormedBlock(block) ==
    /\ Len(block) >= 3
    /\ block[1] \in IndexLines
    /\ block[2] \in RangeLines

\* the entry is the parse of the block
ParsedFrom(entry, block) ==
    IF srt_parser = "SubtitleManager"
    THEN entry.index = block[1] /\ entry.time_range = block[2]
    ELSE entry.index = IntValue(block[1])

ReturnsExactly(blocks) ==
    /\ Len(srt_result) = Len(blocks)
    /\ \A k \in DOMAIN blocks : ParsedFrom(srt_result[k], blocks[k])

\* C21: each of the three parsers returns, without raising, exactly the
\* well-formed blocks of the file in their order: a block of fewer than
\* three lines, with a non-numeric index or with an invalid time range is
\* skipped.
C21_SkipsMalformed ==
    srt_pc = "returned" => ReturnsExactly(SelectSeq(srt_blocks, WellFormedBlock))

\* SRTProcessor.parse_srt does what C21 says
ProcessorSkipsMalformed == srt_parser = "SRTProcessor" => C21_SkipsMalformed

\* SRTParser.parse does so on files whose time lines have neither dots for the
\* commas nor leading spaces
PlainTimeLines ==
    \A k \in DOMAIN srt_blocks :
        Len(srt_blocks[k]) >= 2 =>
            /\ ~IsSpace(srt_blocks[k][2][1])
            /\ \A c \in DOMAIN srt_blocks[k][2] : srt_blocks[k][2][c] # "."
ParserSkipsMalformed ==
    srt_parser = "SRTParser" /\ PlainTimeLines => C21_SkipsMalformed

\* SubtitleManager.parse_srt returns every block of three or more lines
ManagerKeepsLongBlocks ==
    srt_parser = "SubtitleManager" /\ srt_pc = "returned" =>
        ReturnsExactly(SelectSeq(srt_blocks, LongEnough))
====
